---- MODULE Spec2Model ----
(***************************************************************************)
(* Verification model of the cockpit experiment scheduling core:           *)
(*   - the Action Table (cockpit.experiment.actionTable.ActionTable),      *)
(*   - the deformable mirror rewrite hook                                  *)
(*     (MicroscopeDeformableMirror.examineActions),                        *)
(*   - the Z-stack, STORM and rotator sweep action generators              *)
(*     (generateActions),                                                  *)
(*   - compute_z_positions, ExposureSettings and the ActionTable of        *)
(*     cockpit/experiment/__init__.py.                                     *)
(*                                                                         *)
(* Times are exact decimals in the program.  They are integers here, in    *)
(* units of the smallest increment the modelled code uses.                 *)
(***************************************************************************)
EXTENDS Integers, Sequences, FiniteSets, TLC

VARIABLES
    actions,    \* ActionTable.actions: the entries of the table, in table order
    counter,    \* ActionTable insertion counter (sequence number of the next entry)
    dm,         \* what the last examineActions call did (its locals, recorded)
    gen,        \* what the last generateActions call did (its locals, recorded)
    zcalc,      \* the last compute_z_positions call: its arguments and outcome
    settings,   \* an ExposureSettings object and the outcome of the last call on it
    stubTable,  \* two cockpit.experiment.ActionTable objects and the interleave call
    exposureSeq, \* a sequence of ExposureSettings and the last all_cameras / all_lights call on it
    mirror,     \* the mirror's remote_focus_LUT and the last executeTable call
    gui,        \* the experiment windows: their controls, experiments and pending events
    emitters,   \* the cockpit event emitters of windows
    sitesPanel, \* the multi-site settings panel
    rearrange,  \* the sites rearrange control
    zPanel,     \* the Z settings panel
    expEmitter  \* the experiment event emitter

vars == <<actions, counter, dm, gen, zcalc, settings, stubTable,
    exposureSeq, mirror, gui, emitters, sitesPanel, rearrange, zPanel,
    expEmitter>>

\* The state of the stand-alone units of cockpit/experiment/__init__.py, which
\* the Action Table, the rewrite hook and the generators never touch.
unitVars == <<zcalc, settings, stubTable>>

\* The state of the Action Table, the rewrite hook and the generators.
experimentVars == <<actions, counter, dm, gen>>

(***************************************************************************)
(* Bounds of the model.                                                    *)
(***************************************************************************)
MaxActions == 3     \* entries added in the Action Table specification
MaxTime == 2        \* largest time handed to addAction / addToggle there

(***************************************************************************)
(* Handlers and payloads.  A payload is a tagged value; the tags are the   *)
(* runtime types the code dispatches on.                                   *)
(***************************************************************************)
DM == "dm"              \* the deformable mirror's handler (self.handler)
CAMERA == "camera"       \* any handler that is not the mirror's
ZPOS == "zPositioner"   \* the experiment's Z positioner

Float(v) == [tag |-> "float", val |-> v]        \* continuous Move target
IntIdx(v) == [tag |-> "int", val |-> v]            \* target frame index
Marker(kind) == [tag |-> "tuple", val |-> kind] \* tuple control message
Str(kind) == [tag |-> "str", val |-> kind]      \* any other payload type
Trigger == [tag |-> "trigger", val |-> 1]       \* what addToggle inserts
Removed == [tag |-> "removed", val |-> 0]       \* tombstone (table[i] = None)

Entry(t, h, p, n) == [time |-> t, handler |-> h, payload |-> p, seq |-> n]

(***************************************************************************)
(* Action Table.                                                           *)
(***************************************************************************)
toggleTime == 1

\* A table: its entries and its insertion counter.
Table(acts, n) == [actions |-> acts, counter |-> n]

emptyTable == Table(<<>>, 0)

\* Position at which an entry with this time goes in: behind every entry
\* that is not later than it, so equal times keep their insertion order.
insertPosBeforeTies(acts, time) ==
    Cardinality({j \in 1..Len(acts) : acts[j].time < time}) + 1

insertPos(acts, time) ==
    Cardinality({j \in 1..Len(acts) : acts[j].time <= time}) + 1

insertAt(acts, pos, e) ==
    SubSeq(acts, 1, pos - 1) \o <<e>> \o SubSeq(acts, pos, Len(acts))

addAction(tbl, time, handler, payload) ==
    Table(insertAt(tbl.actions, insertPos(tbl.actions, time),
                   Entry(time, handler, payload, tbl.counter)),
          tbl.counter + 1)

\* addToggle inserts one Trigger; its caller gets time + toggleTime back.
addToggle(tbl, time, handler) == addAction(tbl, time, handler, Trigger)

addToggleReturn(time) == time + toggleTime

\* table[i] = None
setBad(acts, i) == [acts EXCEPT ![i].payload = Removed]

clearBadEntries(acts) == SelectSeq(acts, LAMBDA e : e.payload # Removed)

(***************************************************************************)
(* Specification of the Action Table alone: any sequence of addAction and  *)
(* addToggle calls on a fresh table.                                       *)
(***************************************************************************)
idle == [done |-> FALSE]

\* ExposureSettings.__init__: no camera, no light, and no call made yet.
emptyDict == [light \in {} |-> 0]

newSettings == [cameras |-> {}, exposures |-> emptyDict, call |-> "none"]

TablePayloads == {Float(10), Marker("flatten")}

\* The state of the mirror's table execution, of sequences of ExposureSettings
\* and of the windows of cockpit.gui.
guiVars == <<exposureSeq, mirror, gui, emitters, sitesPanel, rearrange,
    zPanel, expEmitter>>

\* Before anything is executed or shown.
guiIdle ==
    /\ exposureSeq = idle
    /\ mirror = idle
    /\ gui = idle
    /\ emitters = idle
    /\ sitesPanel = idle
    /\ rearrange = idle
    /\ zPanel = idle
    /\ expEmitter = idle

\* Every variable but exposureSeq, and the state in which none of them was used.
otherThanExposureSeq == <<actions, counter, dm, gen, zcalc, settings,
    stubTable, mirror, gui, emitters, sitesPanel, rearrange, zPanel,
    expEmitter>>

IdleOtherThanExposureSeq ==
    /\ actions = <<>>
    /\ counter = 0
    /\ dm = idle
    /\ gen = idle
    /\ zcalc = idle
    /\ settings = newSettings
    /\ stubTable = idle
    /\ mirror = idle
    /\ gui = idle
    /\ emitters = idle
    /\ sitesPanel = idle
    /\ rearrange = idle
    /\ zPanel = idle
    /\ expEmitter = idle

\* Every variable but mirror, and the state in which none of them was used.
otherThanMirror == <<actions, counter, dm, gen, zcalc, settings, stubTable,
    exposureSeq, gui, emitters, sitesPanel, rearrange, zPanel, expEmitter>>

IdleOtherThanMirror ==
    /\ actions = <<>>
    /\ counter = 0
    /\ dm = idle
    /\ gen = idle
    /\ zcalc = idle
    /\ settings = newSettings
    /\ stubTable = idle
    /\ exposureSeq = idle
    /\ gui = idle
    /\ emitters = idle
    /\ sitesPanel = idle
    /\ rearrange = idle
    /\ zPanel = idle
    /\ expEmitter = idle

\* Every variable but gui, and the state in which none of them was used.
otherThanGui == <<actions, counter, dm, gen, zcalc, settings, stubTable,
    exposureSeq, mirror, emitters, sitesPanel, rearrange, zPanel,
    expEmitter>>

IdleOtherThanGui ==
    /\ actions = <<>>
    /\ counter = 0
    /\ dm = idle
    /\ gen = idle
    /\ zcalc = idle
    /\ settings = newSettings
    /\ stubTable = idle
    /\ exposureSeq = idle
    /\ mirror = idle
    /\ emitters = idle
    /\ sitesPanel = idle
    /\ rearrange = idle
    /\ zPanel = idle
    /\ expEmitter = idle

\* Every variable but emitters, and the state in which none of them was used.
otherThanEmitters == <<actions, counter, dm, gen, zcalc, settings,
    stubTable, exposureSeq, mirror, gui, sitesPanel, rearrange, zPanel,
    expEmitter>>

IdleOtherThanEmitters ==
    /\ actions = <<>>
    /\ counter = 0
    /\ dm = idle
    /\ gen = idle
    /\ zcalc = idle
    /\ settings = newSettings
    /\ stubTable = idle
    /\ exposureSeq = idle
    /\ mirror = idle
    /\ gui = idle
    /\ sitesPanel = idle
    /\ rearrange = idle
    /\ zPanel = idle
    /\ expEmitter = idle

\* Every variable but sitesPanel, and the state in which none of them was used.
otherThanSitesPanel == <<actions, counter, dm, gen, zcalc, settings,
    stubTable, exposureSeq, mirror, gui, emitters, rearrange, zPanel,
    expEmitter>>

IdleOtherThanSitesPanel ==
    /\ actions = <<>>
    /\ counter = 0
    /\ dm = idle
    /\ gen = idle
    /\ zcalc = idle
    /\ settings = newSettings
    /\ stubTable = idle
    /\ exposureSeq = idle
    /\ mirror = idle
    /\ gui = idle
    /\ emitters = idle
    /\ rearrange = idle
    /\ zPanel = idle
    /\ expEmitter = idle

\* Every variable but rearrange, and the state in which none of them was used.
otherThanRearrange == <<actions, counter, dm, gen, zcalc, settings,
    stubTable, exposureSeq, mirror, gui, emitters, sitesPanel, zPanel,
    expEmitter>>

IdleOtherThanRearrange ==
    /\ actions = <<>>
    /\ counter = 0
    /\ dm = idle
    /\ gen = idle
    /\ zcalc = idle
    /\ settings = newSettings
    /\ stubTable = idle
    /\ exposureSeq = idle
    /\ mirror = idle
    /\ gui = idle
    /\ emitters = idle
    /\ sitesPanel = idle
    /\ zPanel = idle
    /\ expEmitter = idle

\* Every variable but zPanel, and the state in which none of them was used.
otherThanZPanel == <<actions, counter, dm, gen, zcalc, settings, stubTable,
    exposureSeq, mirror, gui, emitters, sitesPanel, rearrange, expEmitter>>

IdleOtherThanZPanel ==
    /\ actions = <<>>
    /\ counter = 0
    /\ dm = idle
    /\ gen = idle
    /\ zcalc = idle
    /\ settings = newSettings
    /\ stubTable = idle
    /\ exposureSeq = idle
    /\ mirror = idle
    /\ gui = idle
    /\ emitters = idle
    /\ sitesPanel = idle
    /\ rearrange = idle
    /\ expEmitter = idle

\* Every variable but expEmitter, and the state in which none of them was used.
otherThanExpEmitter == <<actions, counter, dm, gen, zcalc, settings,
    stubTable, exposureSeq, mirror, gui, emitters, sitesPanel, rearrange,
    zPanel>>

IdleOtherThanExpEmitter ==
    /\ actions = <<>>
    /\ counter = 0
    /\ dm = idle
    /\ gen = idle
    /\ zcalc = idle
    /\ settings = newSettings
    /\ stubTable = idle
    /\ exposureSeq = idle
    /\ mirror = idle
    /\ gui = idle
    /\ emitters = idle
    /\ sitesPanel = idle
    /\ rearrange = idle
    /\ zPanel = idle

TableInit ==
    /\ actions = <<>>
    /\ counter = 0
    /\ dm = idle
    /\ gen = idle
    /\ zcalc = idle
    /\ settings = newSettings
    /\ guiIdle
    /\ stubTable = idle

AddAction ==
    /\ Len(actions) < MaxActions
    /\ \E time \in 0..MaxTime, handler \in {DM, CAMERA}, payload \in TablePayloads :
          LET tbl == addAction(Table(actions, counter), time, handler, payload)
          IN  /\ actions' = tbl.actions
              /\ counter' = tbl.counter
    /\ UNCHANGED <<dm, gen, unitVars, guiVars>>

AddToggle ==
    /\ Len(actions) < MaxActions
    /\ \E time \in 0..MaxTime, handler \in {DM, CAMERA} :
          LET tbl == addToggle(Table(actions, counter), time, handler)
          IN  /\ actions' = tbl.actions
              /\ counter' = tbl.counter
    /\ UNCHANGED <<dm, gen, unitVars, guiVars>>

TableNext == AddAction \/ AddToggle

SpecTable == TableInit /\ [][TableNext]_vars

\* C1: iterating the table after any sequence of addAction/addToggle calls
\* yields non-decreasing times, and two entries with equal time appear in
\* the order in which they were inserted.
TableOrdered ==
    \A i, j \in 1..Len(actions) :
        i < j =>
            /\ actions[i].time <= actions[j].time
            /\ actions[i].time = actions[j].time => actions[i].seq < actions[j].seq

\* A table holding a tie inserted around a later entry: the second of the
\* two equal-time entries was added after an entry with a larger time.
TableTieReached ==
    \E i, j, k \in 1..Len(actions) :
        /\ i < j /\ j < k
        /\ actions[i].time = actions[j].time
        /\ actions[j].time < actions[k].time
        /\ actions[k].seq < actions[j].seq
        /\ actions[j].payload = Trigger

(***************************************************************************)
(* MicroscopeDeformableMirror.examineActions.                              *)
(***************************************************************************)
MaxTable == 6       \* entries of the table handed to examineActions
MaxSpecial == 2     \* of which entries that are not a float target of the mirror

TrailingTriggers == 12

\* patternParams = [row[2] for row in table if row[1] is self.handler]
patternParams(acts) ==
    LET mine == SelectSeq(acts, LAMBDA e : e.handler = DM)
    IN  [k \in 1..Len(mine) |-> mine[k].payload]

\* itertools.groupby: the first element of every run of equal elements.
RECURSIVE groupKeys(_)
groupKeys(s) ==
    IF Len(s) = 0 THEN <<>>
    ELSE LET rest == groupKeys(Tail(s))
         IN  IF Len(rest) > 0 /\ rest[1] = Head(s) THEN rest
             ELSE <<Head(s)>> \o rest

isFloat(p) == p.tag = "float"
isInt(p) == p.tag = "int"
isTuple(p) == p.tag = "tuple"

\* reducedParams = [p[0] for p in groupby(patternParams) if isinstance(p[0], float)]
reducedParams(params) == SelectSeq(groupKeys(params), isFloat)

\* Candidate lengths of the repeating unit: range(2, len(reducedParams) // 2).
candidateLengths(n) == {L \in 2..(n \div 2) : L < n \div 2}

periodMatches(reduced, L) ==
    SubSeq(reduced, 1, L) = SubSeq(reduced, L + 1, 2 * L)

\* The loop over the candidates breaks at the first (smallest) match.
sequenceLength(reduced) ==
    LET found == {L \in candidateLengths(Len(reduced)) : periodMatches(reduced, L)}
    IN  IF found = {} THEN Len(reduced)
        ELSE CHOOSE L \in found : \A M \in found : L <= M

\* sequence = reducedParams[0:sequenceLength]
sequenceOf(reduced) == SubSeq(reduced, 1, sequenceLength(reduced))

\* self._proxy.queue_patterns(ac_positions), one row per reduced parameter,
\* unless ac_positions is empty.
queuedPatterns(reduced) == IF Len(reduced) # 0 THEN <<reduced>> ELSE <<>>

\* The original event is removed unless its payload is a tuple.
removesEntryKeepNonFloat(action) == isFloat(action)

removesEntryAlways(action) == TRUE

removesEntry(action) == ~isTuple(action)

\* How many triggers?
numTriggers(action, lastIndex, sequence, seqLen) ==
    IF isFloat(action) /\ action # sequence[lastIndex + 1] THEN 1
    ELSE IF isInt(action)
         THEN IF action.val >= lastIndex THEN action.val - lastIndex
              ELSE seqLen - lastIndex - action.val
         ELSE 0

\* lastIndex += numTriggers, wrapped when it reaches the cycle length.
nextLastIndex(lastIndex, n, seqLen) ==
    IF lastIndex + n >= seqLen /\ seqLen # 0
    THEN (lastIndex + n) % seqLen
    ELSE lastIndex + n

\* for trig in range(n): t = table.addToggle(t, self.handler); t += table.toggleTime
RECURSIVE emitTriggers(_, _, _)
emitTriggers(tbl, t, n) ==
    IF n <= 0 THEN [tbl |-> tbl, t |-> t]
    ELSE emitTriggers(addToggle(tbl, t, DM),
                      addToggleReturn(t) + toggleTime, n - 1)

\* An entry of another handler: nothing to do.  The loop has bound t to
\* the entry's time all the same.
skipEntryStaleTime(st, e) == [st EXCEPT !.i = st.i + 1]

skipEntry(st, e) == [st EXCEPT !.i = st.i + 1, !.t = e.time]

walkEntryEveryHandler(st, sequence, seqLen) ==
    LET e == st.tbl.actions[st.i]
        n == IF isFloat(e.payload) /\ e.handler # DM THEN 0
             ELSE numTriggers(e.payload, st.lastIndex, sequence, seqLen)
        em == emitTriggers(Table(setBad(st.tbl.actions, st.i), st.tbl.counter),
                           e.time, n)
    IN  [tbl |-> em.tbl, i |-> st.i + 1, t |-> em.t,
         lastIndex |-> nextLastIndex(st.lastIndex, n, seqLen),
         log |-> Append(st.log, [entry |-> e, before |-> st.lastIndex, n |-> n,
                                 after |-> nextLastIndex(st.lastIndex, n, seqLen)])]

\* One iteration of the main pass, on the entry at (1-based) position st.i.
walkEntry(st, sequence, seqLen) ==
    LET e == st.tbl.actions[st.i]
    IN  IF e.handler # DM
        THEN skipEntry(st, e)
        ELSE LET acts1 == IF removesEntry(e.payload)
                          THEN setBad(st.tbl.actions, st.i)
                          ELSE st.tbl.actions
                 n == numTriggers(e.payload, st.lastIndex, sequence, seqLen)
                 em == emitTriggers(Table(acts1, st.tbl.counter), e.time, n)
                 after == nextLastIndex(st.lastIndex, n, seqLen)
             IN  [tbl |-> em.tbl,
                  i |-> st.i + 1,
                  t |-> em.t,
                  lastIndex |-> after,
                  log |-> Append(st.log,
                                 [entry |-> e, before |-> st.lastIndex,
                                  n |-> n, after |-> after])]

\* for i, (t, handler, action) in enumerate(table.actions): the list is
\* walked by position while triggers are being inserted into it, so the
\* triggers inserted behind the current position are visited in their turn
\* (a Trigger payload is neither tuple, float nor int).
RECURSIVE walk(_, _, _)
walk(st, sequence, seqLen) ==
    IF st.i > Len(st.tbl.actions) THEN st
    ELSE walk(walkEntry(st, sequence, seqLen), sequence, seqLen)

\* for trig in range(12): the spurious triggers that clear the buffer.
addTrailingTriggers(tbl, t) == emitTriggers(tbl, t, TrailingTriggers)

\* The table as examineActions leaves it.
examinedTable(tbl) ==
    LET params == patternParams(tbl.actions)
        reduced == reducedParams(params)
        main == walk([tbl |-> tbl, i |-> 1, t |-> 0, lastIndex |-> 0, log |-> <<>>],
                     sequenceOf(reduced), sequenceLength(reduced))
        cleared == Table(clearBadEntries(main.tbl.actions), main.tbl.counter)
    IN  IF Len(params) = 0 THEN tbl
        ELSE addTrailingTriggers(cleared, main.t).tbl

\* What examineActions computed on the way: its locals and its calls.
examineActions(tbl) ==
    LET params == patternParams(tbl.actions)
        reduced == reducedParams(params)
        seqLen == sequenceLength(reduced)
        sequence == sequenceOf(reduced)
        main == walk([tbl |-> tbl, i |-> 1, t |-> 0, lastIndex |-> 0, log |-> <<>>],
                     sequence, seqLen)
    IN  IF Len(params) = 0
        THEN [done |-> TRUE, used |-> FALSE, outcome |-> "returned",
              before |-> tbl.actions, reducedParams |-> <<>>,
              sequenceLength |-> 0, sequence |-> <<>>, queued |-> <<>>,
              log |-> <<>>, mainTable |-> tbl.actions,
              mainCounter |-> tbl.counter, t |-> 0]
        ELSE [done |-> TRUE, used |-> TRUE, outcome |-> "returned",
              before |-> tbl.actions, reducedParams |-> reduced,
              sequenceLength |-> seqLen, sequence |-> sequence,
              queued |-> queuedPatterns(reduced),
              log |-> main.log, mainTable |-> main.tbl.actions,
              mainCounter |-> main.tbl.counter, t |-> main.t]

(***************************************************************************)
(* Specification of the rewrite hook: an experiment fills the table in     *)
(* chronological order, then the mirror's examineActions is called once.   *)
(***************************************************************************)
\* What the experiment asks of a device, and the time since the previous
\* entry.
DMInputs ==
    {<<DM, p, 1>> : p \in {Float(10), Float(20), IntIdx(2),
                           Marker("flatten"), Str("clean")}}
    \cup {<<CAMERA, Float(10), dt>> : dt \in {0, 1}}

isSpecial(e) == ~(e.handler = DM /\ isFloat(e.payload))

numSpecial(acts) == Len(SelectSeq(acts, isSpecial))

DMInit == TableInit

GenerateEntry ==
    /\ ~dm.done
    /\ Len(actions) < MaxTable
    /\ \E in \in DMInputs :
          LET time == IF Len(actions) = 0 THEN 0
                      ELSE actions[Len(actions)].time + in[3]
              tbl == addAction(Table(actions, counter), time, in[1], in[2])
          IN  /\ numSpecial(tbl.actions) <= MaxSpecial
              /\ actions' = tbl.actions
              /\ counter' = tbl.counter
    /\ UNCHANGED <<dm, gen, unitVars, guiVars>>

ExamineActions ==
    /\ ~dm.done
    /\ LET tbl == examinedTable(Table(actions, counter))
       IN  /\ dm' = examineActions(Table(actions, counter))
           /\ actions' = tbl.actions
           /\ counter' = tbl.counter
    /\ UNCHANGED <<gen, unitVars, guiVars>>

DMNext == GenerateEntry \/ ExamineActions

SpecDM == DMInit /\ [][DMNext]_vars

\* The entries of a table that are addressed to the mirror.
mirrorEntries(acts) == {acts[k] : k \in {j \in 1..Len(acts) : acts[j].handler = DM}}

isNumeric(p) == isFloat(p) \/ isInt(p)

\* The log items of the main pass for entries of the table as it was handed
\* to the hook (the triggers inserted during the pass are visited as well).
originalItems ==
    {dm.log[k] : k \in {j \in 1..Len(dm.log) : dm.log[j].entry.seq < Len(dm.before)}}

\* Cycle indices at which a payload's value sits: the index itself for a
\* frame index of the cycle, every position of the value in the cycle for
\* a float.
targetIndices(p) ==
    IF isInt(p) THEN {p.val} \cap (0..(dm.sequenceLength - 1))
    ELSE {j - 1 : j \in {k \in 1..Len(dm.sequence) : dm.sequence[k] = p}}

\* C2: for every entry of the mirror that requests a numeric target, the
\* number of triggers emitted for it is the distance from the last-triggered
\* cycle index to the cycle index of the requested value, modulo the cycle
\* length.
TriggerCountIsModuloDistance ==
    (dm.done /\ dm.used /\ dm.sequenceLength > 0) =>
        \A it \in originalItems :
            (isNumeric(it.entry.payload) /\ targetIndices(it.entry.payload) # {}) =>
                \E j \in targetIndices(it.entry.payload) :
                    it.n = (j - it.before) % dm.sequenceLength

\* The period the specification describes: the smallest L from 2 up to half
\* the length (included) whose first L elements equal the next L.
describedPeriod(reduced) ==
    LET n == Len(reduced)
        found == {L \in 2..(n \div 2) : periodMatches(reduced, L)}
    IN  IF found = {} THEN n
        ELSE CHOOSE L \in found : \A M \in found : L <= M

\* C3: the detected cycle length is the smallest L with 2 <= L <= n/2 such
\* that the first L elements of the reduced sequence equal the next L, and n
\* when there is none; [10, 20, 10, 20] has period 2.
PeriodUpToHalfDetected ==
    (dm.done /\ dm.used) => dm.sequenceLength = describedPeriod(dm.reducedParams)

isUnrecognized(p) == ~isNumeric(p) /\ ~isTuple(p)

\* C4: an entry of the mirror with an unrecognized payload makes
\* examineActions fail; it is never silently ignored or removed.
UnrecognizedPayloadIsFatal ==
    (dm.done /\ \E e \in mirrorEntries(dm.before) : isUnrecognized(e.payload)) =>
        dm.outcome = "raised"

\* C5: every entry of the mirror with a tuple payload is still in the table
\* after examineActions, time and payload unchanged, and no trigger was
\* emitted for it.
MarkersPreserved ==
    dm.done =>
        \A e \in mirrorEntries(dm.before) :
            isTuple(e.payload) =>
                /\ Cardinality({k \in 1..Len(actions) : actions[k] = e}) = 1
                /\ \A it \in originalItems : it.entry = e => it.n = 0

\* A rewritten table that held a marker between float targets for which
\* triggers were emitted.
MarkerAmongTriggersReached ==
    /\ dm.done /\ dm.used
    /\ \E e \in mirrorEntries(dm.before) : isTuple(e.payload)
    /\ \E it \in originalItems : it.n > 0
    /\ \E k \in 1..Len(actions) : isTuple(actions[k].payload)

trailingEntries ==
    {actions[k] : k \in {j \in 1..Len(actions) : actions[j].seq >= dm.mainCounter}}

\* C7: after the main pass exactly 12 triggers of the mirror are added, and
\* none of them is earlier than a trigger emitted during the main pass or
\* than any other entry of the table.
TrailingTriggersLast ==
    (dm.done /\ dm.used) =>
        /\ Cardinality(trailingEntries) = 12
        /\ counter = dm.mainCounter + 12
        /\ \A e \in trailingEntries :
              /\ e.handler = DM /\ e.payload = Trigger
              /\ \A k \in 1..Len(dm.mainTable) : dm.mainTable[k].time <= e.time
              /\ \A k \in 1..Len(actions) :
                    actions[k].seq < dm.mainCounter => actions[k].time <= e.time

\* A rewritten table whose last entry belonged to another device and was
\* later than everything the mirror did in the main pass.
TrailingAfterOtherReached ==
    /\ dm.done /\ dm.used
    /\ \E it \in originalItems : it.n > 1
    /\ LET last == dm.before[Len(dm.before)]
       IN  /\ last.handler = CAMERA
           /\ \A e \in mirrorEntries(dm.mainTable) : e.time < last.time

(***************************************************************************)
(* Experiment generators: ZStackExperiment.generateActions and             *)
(* STORM.generateActions, with the collaborators they call.                *)
(***************************************************************************)
MaxHeight == 2      \* largest stack height handed to a generator
MaxMoveTime == 1    \* largest motion time of the positioner per unit of distance
MaxExposures == 2   \* exposure groups (sequences) of an experiment
MaxReadout == 4     \* longest time a camera needs before it can expose again

Epsilon == 1        \* decimal.Decimal('1e-10'), the unit of time of the generators
TwoDHeight == 1     \* 1e-6, the unit of height of the STORM generator

Abs(x) == IF x < 0 THEN -x ELSE x

Max2(a, b) == IF a >= b THEN a ELSE b

MaxOf(S) == CHOOSE x \in S : \A y \in S : y <= x

\* math.ceil(a / b) for a >= 0 and b > 0
CeilDiv(a, b) == (a + b - 1) \div b

\* The messages of the ValueError exceptions of compute_z_positions.
InvalidHeight == "'stack_height' must be non-negative"
InvalidStep == "'step' must be non-zero"
NoError == "none"

slicesWithoutTop(stack_height, step) == CeilDiv(stack_height, Abs(step))

\* math.ceil(stack_height / abs(float(step))) + 1 for a non-zero step
slicesFor(stack_height, step) == CeilDiv(stack_height, Abs(step)) + 1

zeroStepAlwaysFails(stack_height) == [error |-> InvalidStep, num_slices |-> 0]

\* The handler of ZeroDivisionError: what a zero step leads to.
zeroStep(stack_height) ==
    IF stack_height # 0
    THEN [error |-> InvalidStep, num_slices |-> 0]
    ELSE [error |-> NoError, num_slices |-> 1]

positionAtAscending(start, step, i) == start + i * Abs(step)

\* start + i * step, the element of index i of the result
positionAt(start, step, i) == start + i * step

zPositionsStepFirst(start, stack_height, step) ==
    LET slices == IF step = 0 THEN zeroStep(stack_height)
                  ELSE IF stack_height < 0
                       THEN [error |-> InvalidHeight, num_slices |-> 0]
                       ELSE [error |-> NoError,
                             num_slices |-> slicesFor(stack_height, step)]
    IN  [error |-> slices.error,
         positions |-> [i \in 1..slices.num_slices |->
                            positionAt(start, step, i - 1)]]

\* compute_z_positions: the error it raises, if any, and the list it returns.
zPositions(start, stack_height, step) ==
    LET slices == IF stack_height < 0
                  THEN [error |-> InvalidHeight, num_slices |-> 0]
                  ELSE IF step = 0 THEN zeroStep(stack_height)
                       ELSE [error |-> NoError,
                             num_slices |-> slicesFor(stack_height, step)]
    IN  [error |-> slices.error,
         positions |-> [i \in 1..slices.num_slices |->
                            positionAt(start, step, i - 1)]]

\* compute_z_positions where it returns: a non-negative height and a step
\* that is zero only if the height is.
compute_z_positions(start, stack_height, step) ==
    zPositions(start, stack_height, step).positions

\* zPositioner.getMovementTime(prev, target): (motionTime, stabilizationTime)
\* of a positioner that needs mover.speed per unit of distance and
\* mover.settle to stabilize.
getMovementTime(mover, from, to) == <<mover.speed * Abs(to - from), mover.settle>>

\* The cameras of a group in the order in which the set is iterated (some
\* fixed order).
RECURSIVE cameraOrder(_)
cameraOrder(cams) ==
    IF cams = {} THEN <<>>
    ELSE LET c == CHOOSE x \in cams : TRUE
             rest == cameraOrder(cams \ {c})
         IN  <<c>> \o rest

RECURSIVE triggerCameras(_, _, _)
triggerCameras(tbl, time, cams) ==
    IF Len(cams) = 0 THEN tbl
    ELSE triggerCameras(addToggle(tbl, time, Head(cams)), time, Tail(cams))

\* Experiment.expose(curTime, exposure, table): triggers the cameras of the
\* group and returns the time at which the acquisition completes.
expose(st, exposure) ==
    [st EXCEPT
        !.tbl = triggerCameras(st.tbl, st.curTime, cameraOrder(exposure.cameras)),
        !.curTime = st.curTime + exposure.duration,
        !.exposeLog = Append(st.exposeLog,
                             [start |-> st.curTime,
                              end |-> st.curTime + exposure.duration,
                              slice |-> Len(st.moves),
                              exposure |-> exposure])]

\* Experiment.getTimeWhenCameraCanExpose(table, camera): the camera is ready
\* a readout time after its last trigger in the table.
getTimeWhenCameraCanExpose(acts, camera, readout) ==
    LET mine == {k \in 1..Len(acts) : acts[k].handler = camera}
    IN  IF mine = {} THEN 0
        ELSE MaxOf({acts[k].time : k \in mine}) + readout

\* Advance the time very slightly so that all exposures are strictly ordered.
advanceNoEpsilon(st) == st

advanceEpsilon(st) == [st EXCEPT !.curTime = st.curTime + Epsilon]

\* table.addAction(time, self.zPositioner, position), recorded in call order.
zAction(st, time, position) ==
    [st EXCEPT !.tbl = addAction(st.tbl, time, ZPOS, Float(position)),
               !.zLog = Append(st.zLog, [time |-> time, position |-> position])]

\* Move to the next position, then wait for the stage to stabilize
\* (zStack.py: the action is at curTime after curTime += motionTime).
moveTo(st, mover, zTarget) ==
    LET mv == IF Len(st.moves) = 0 THEN <<0, 0>>
              ELSE getMovementTime(mover, st.prevAltitude, zTarget)
        moved == zAction(st, st.curTime + mv[1], zTarget)
    IN  [moved EXCEPT !.curTime = st.curTime + mv[1] + mv[2],
                      !.prevAltitude = zTarget,
                      !.moves = Append(st.moves, mv)]

\* Hold the Z motion flat during the exposure.
holdSkipped(st, zTarget) == st

holdFlat(st, zTarget) == zAction(st, st.curTime, zTarget)

\* for exposure in self.exposures: expose, then advance by the epsilon.
RECURSIVE imageSample(_, _)
imageSample(st, exposures) ==
    IF Len(exposures) = 0 THEN st
    ELSE imageSample(advanceEpsilon(expose(st, Head(exposures))), Tail(exposures))

\* for zTarget in z_handler_positions: move, image, hold.
RECURSIVE zStackSlices(_, _, _, _)
zStackSlices(st, mover, positions, exposures) ==
    IF Len(positions) = 0 THEN st
    ELSE LET zTarget == Head(positions)
             imaged == imageSample(moveTo(st, mover, zTarget), exposures)
         IN  zStackSlices(holdFlat(imaged, zTarget), mover,
                          Tail(positions), exposures)

\* The cameras whose readiness is asked for, in the order of the queries.
RECURSIVE camerasOf(_)
camerasOf(exposures) ==
    IF Len(exposures) = 0 THEN <<>>
    ELSE cameraOrder(Head(exposures).cameras) \o camerasOf(Tail(exposures))

\* Only needed if we're doing multiple reps.
readyQueriesAlways(numReps, exposures) == camerasOf(exposures)

readyQueries(numReps, exposures) ==
    IF numReps > 1 THEN camerasOf(exposures) ELSE <<>>

cameraReadyTime(acts, queries, readout) ==
    MaxOf({0} \cup {getTimeWhenCameraCanExpose(acts, queries[k], readout) :
                        k \in 1..Len(queries)})

genStartOnLastTable ==
    [tbl |-> Table(actions, counter), curTime |-> 0, prevAltitude |-> 0,
     moves |-> <<>>, zLog |-> <<>>, exposeLog |-> <<>>]

\* table = ActionTable(); curTime = 0; prevAltitude = None
genStart ==
    [tbl |-> emptyTable, curTime |-> 0, prevAltitude |-> 0, moves |-> <<>>,
     zLog |-> <<>>, exposeLog |-> <<>>]

\* Move back to the start, then hold flat for the stabilization time and
\* any time needed for the cameras to be ready.
returnToStart(st, mover, from, start, numReps, groups, readout) ==
    LET mv == getMovementTime(mover, from, start)
        back == zAction(st, st.curTime + mv[1], start)
        queries == readyQueries(numReps, groups)
        ready == cameraReadyTime(back.tbl.actions, queries, readout)
        final == zAction(back, Max2(st.curTime + mv[1] + mv[2], ready), start)
    IN  [tbl |-> final.tbl,
         info |-> [done |-> TRUE,
                   zLog |-> final.zLog, exposeLog |-> final.exposeLog,
                   moves |-> Append(st.moves, mv),
                   returnTime |-> st.curTime + mv[1],
                   stabilizationTime |-> mv[2],
                   queries |-> queries, cameraReadyTime |-> ready]]

\* ZStackExperiment.generateActions
zStackGenerateActions(in) ==
    LET st == zStackSlices(genStart, in.mover, in.positions, in.exposures)
    IN  returnToStart(st, in.mover, in.positions[Len(in.positions)],
                      in.positions[1], in.numReps, in.exposures, in.readout)

\* for rep in range(self.repetitions): for sequence in self.sequences:
\* expose, advance by the epsilon, hold the Z motion flat.
RECURSIVE stormSequences(_, _, _)
stormSequences(st, zTarget, sequences) ==
    IF Len(sequences) = 0 THEN st
    ELSE stormSequences(
             holdFlat(advanceEpsilon(expose(st, Head(sequences))), zTarget),
             zTarget, Tail(sequences))

stormRepetitionsOnce(st, zTarget, reps, sequences) ==
    stormSequences(st, zTarget, sequences)

RECURSIVE stormRepetitions(_, _, _, _)
stormRepetitions(st, zTarget, reps, sequences) ==
    IF reps <= 0 THEN st
    ELSE stormRepetitions(stormSequences(st, zTarget, sequences),
                          zTarget, reps - 1, sequences)

\* numZSlices, with the extra image that hits the top of the volume.
numZSlices(zHeight, sliceHeight) ==
    CeilDiv(zHeight, sliceHeight) + (IF zHeight > TwoDHeight THEN 1 ELSE 0)

\* for zIndex in range(numZSlices), from slice zIndex on.
RECURSIVE stormSlices(_, _, _, _)
stormSlices(st, in, zIndex, slices) ==
    IF zIndex >= slices THEN st
    ELSE LET targetAltitude == in.sliceHeight * zIndex
             moved == moveTo(st, in.mover, targetAltitude)
         IN  stormSlices(stormRepetitions(moved, targetAltitude,
                                          in.repetitions, in.sequences),
                         in, zIndex + 1, slices)

heightsAsEntered(zHeight, sliceHeight) ==
    [zHeight |-> zHeight, sliceHeight |-> sliceHeight]

\* ExperimentConfigPanel.runExperiment: the stack height and slice height
\* handed to the experiment; a stack height of zero is the 2D mode.
runExperimentHeights(zHeight, sliceHeight) ==
    IF zHeight = 0
    THEN [zHeight |-> TwoDHeight, sliceHeight |-> TwoDHeight]
    ELSE [zHeight |-> zHeight, sliceHeight |-> sliceHeight]

\* STORM.generateActions
stormGenerateActions(in) ==
    LET st == stormSlices(genStart, in, 0, numZSlices(in.zHeight, in.sliceHeight))
    IN  returnToStart(st, in.mover, in.zHeight, 0,
                      in.numReps, in.exposureSettings, in.readout)

(***************************************************************************)
(* Specification of the generators: an experiment is set up with some      *)
(* parameters and its generateActions is called.                           *)
(***************************************************************************)
Cameras == {"cam1", "cam2"}

\* Exposure groups: the cameras that fire together and the longest exposure.
ExposureGroups ==
    {[cameras |-> {"cam1"}, duration |-> 1],
     [cameras |-> {"cam1", "cam2"}, duration |-> 2]}

ExposureLists ==
    UNION {[1..n -> ExposureGroups] : n \in 0..MaxExposures}

\* A STORM sequence names one camera.
StormSequences ==
    {[cameras |-> {"cam1"}, duration |-> 1],
     [cameras |-> {"cam2"}, duration |-> 2]}

StormSequenceLists ==
    UNION {[1..n -> StormSequences] : n \in 0..MaxExposures}

\* Groups of the experiment whose cameras are asked for their readiness.
ExposureSettingsLists ==
    UNION {[1..n -> ExposureGroups] : n \in 0..2}

Movers == [speed : 0..MaxMoveTime, settle : 0..1]

GenInit == TableInit

GenerateZStack ==
    /\ ~gen.done
    /\ \E start \in 0..1, height \in 0..MaxHeight, step \in {-1, 1, 2},
          mover \in Movers, exposures \in ExposureLists,
          numReps \in 1..2, readout \in {0, MaxReadout} :
          LET in == [kind |-> "zStack", stackHeight |-> height,
                     positions |-> compute_z_positions(start, height, step),
                     mover |-> mover, exposures |-> exposures,
                     numReps |-> numReps, readout |-> readout]
              r == zStackGenerateActions(in)
          IN  /\ actions' = r.tbl.actions
              /\ counter' = r.tbl.counter
              /\ gen' = [in |-> in] @@ r.info
    /\ UNCHANGED <<dm, unitVars, guiVars>>

GenerateSTORM ==
    /\ ~gen.done
    /\ \E zHeight \in 0..MaxHeight, sliceHeight \in 1..2,
          mover \in Movers, sequences \in StormSequenceLists,
          repetitions \in 1..2, exposureSettings \in ExposureSettingsLists,
          numReps \in 1..2, readout \in {0, MaxReadout} :
          LET heights == runExperimentHeights(zHeight, sliceHeight)
              in == [kind |-> "STORM", stackHeight |-> zHeight,
                     zHeight |-> heights.zHeight,
                     sliceHeight |-> heights.sliceHeight, mover |-> mover,
                     sequences |-> sequences, repetitions |-> repetitions,
                     exposureSettings |-> exposureSettings,
                     numReps |-> numReps, readout |-> readout]
              r == stormGenerateActions(in)
          IN  /\ actions' = r.tbl.actions
              /\ counter' = r.tbl.counter
              /\ gen' = [in |-> in] @@ r.info
    /\ UNCHANGED <<dm, unitVars, guiVars>>

GenNext == GenerateZStack \/ GenerateSTORM

SpecGen == GenInit /\ [][GenNext]_vars

\* The Z positioner's actions, in table order.
zEntries == SelectSeq(actions, LAMBDA e : e.handler = ZPOS)

\* The exposures made at the k-th position visited.
exposuresAt(k) ==
    {j \in 1..Len(gen.exposeLog) : gen.exposeLog[j].slice = k}

\* C8: Z-stack with numReps = 1: the positioner's actions in table order are,
\* for each position in order, a move to it, the exposures, a hold at it, and
\* finally a return move to the first position and a hold there (2n+2
\* actions); the first action is the move to the first position at time 0,
\* no time is negative and no action is earlier than one inserted before it.
ZStackMoveExposeHold ==
    (gen.done /\ gen.in.kind = "zStack" /\ gen.in.numReps = 1) =>
        LET P == gen.in.positions
            n == Len(P)
            z == zEntries
        IN  /\ Len(z) = 2 * n + 2
            /\ \A i \in 1..n :
                  /\ z[2 * i - 1].payload = Float(P[i])
                  /\ z[2 * i].payload = Float(P[i])
                  /\ Cardinality(exposuresAt(i)) = Len(gen.in.exposures)
                  /\ \A j \in exposuresAt(i) :
                        /\ z[2 * i - 1].time <= gen.exposeLog[j].start
                        /\ gen.exposeLog[j].end <= z[2 * i].time
            /\ z[2 * n + 1].payload = Float(P[1])
            /\ z[2 * n + 2].payload = Float(P[1])
            /\ actions[1] = z[1]
            /\ z[1].time = 0
            /\ \A k \in 1..Len(actions) : actions[k].time >= 0
            /\ \A j, k \in 1..Len(actions) :
                  actions[j].seq < actions[k].seq => actions[j].time <= actions[k].time

\* A Z-stack of at least three positions with exposures and a positioner
\* that takes time to move and to settle.
ZStackImagedReached ==
    /\ gen.done /\ gen.in.kind = "zStack" /\ gen.in.numReps = 1
    /\ Len(gen.in.positions) >= 3
    /\ Len(gen.in.exposures) = 2
    /\ gen.in.mover.speed > 0 /\ gen.in.mover.settle > 0
    /\ Len(zEntries) = 2 * Len(gen.in.positions) + 2

RECURSIVE SumSeq(_)
SumSeq(s) == IF Len(s) = 0 THEN 0 ELSE Head(s) + SumSeq(Tail(s))

motionSum == SumSeq([k \in 1..Len(gen.moves) |-> gen.moves[k][1]])
stabilizationSum == SumSeq([k \in 1..Len(gen.moves) |-> gen.moves[k][2]])
exposureSum ==
    SumSeq([k \in 1..Len(gen.exposeLog) |->
                gen.exposeLog[k].end - gen.exposeLog[k].start])

\* firstAndLastTimes of the table
tableDuration == actions[Len(actions)].time - actions[1].time

\* C9 as stated: Z-stack with numReps = 1: the duration of the table is the
\* sum of all motion, stabilization and exposure times, and no time is
\* negative.
DurationIsSumOfTimes ==
    (gen.done /\ gen.in.kind = "zStack" /\ gen.in.numReps = 1) =>
        /\ tableDuration = motionSum + stabilizationSum + exposureSum
        /\ \A k \in 1..Len(actions) : actions[k].time >= 0

\* C9 amended: the duration is that sum plus one epsilon for every exposure
\* made.
DurationIsSumPlusEpsilons ==
    (gen.done /\ gen.in.kind = "zStack" /\ gen.in.numReps = 1) =>
        /\ tableDuration = motionSum + stabilizationSum + exposureSum
                           + Epsilon * Len(gen.exposeLog)
        /\ \A k \in 1..Len(actions) : actions[k].time >= 0

\* A Z-stack whose duration has motion, stabilization, exposure and epsilon
\* parts.
ZStackDurationPartsReached ==
    /\ gen.done /\ gen.in.kind = "zStack" /\ gen.in.numReps = 1
    /\ motionSum > 0 /\ stabilizationSum > 0 /\ exposureSum > 0
    /\ Len(gen.exposeLog) >= 4
    /\ tableDuration > motionSum + stabilizationSum + exposureSum

\* The exposure groups whose cameras must be ready, and the start position.
readinessGroups ==
    IF gen.in.kind = "zStack" THEN gen.in.exposures ELSE gen.in.exposureSettings

startPosition == IF gen.in.kind = "zStack" THEN gen.in.positions[1] ELSE 0

allGroupCameras ==
    UNION {readinessGroups[k].cameras : k \in 1..Len(readinessGroups)}

expectedReadyTime ==
    IF gen.in.numReps > 1
    THEN MaxOf({0} \cup {getTimeWhenCameraCanExpose(actions, c, gen.in.readout) :
                            c \in allGroupCameras})
    ELSE 0

\* C10: the last action inserted by the Z-stack and STORM generators is a
\* hold of the Z positioner at the starting position at
\* max(returnTime + stabilizationTime, cameraReadyTime); cameraReadyTime is
\* the maximum readiness time over every camera of every exposure group when
\* numReps > 1, and 0 with no readiness query when numReps <= 1.
FinalHoldAtReadyTime ==
    gen.done =>
        LET last == CHOOSE e \in {actions[k] : k \in 1..Len(actions)} :
                        e.seq = counter - 1
            back == gen.zLog[Len(gen.zLog) - 1]
        IN  /\ last.handler = ZPOS
            /\ last.payload = Float(startPosition)
            /\ back.position = startPosition
            /\ last.time = Max2(back.time + gen.stabilizationTime, expectedReadyTime)
            /\ gen.in.numReps <= 1 => gen.queries = <<>>
            /\ gen.in.numReps > 1 =>
                  {gen.queries[k] : k \in 1..Len(gen.queries)} = allGroupCameras

\* A repeated STORM experiment whose final hold waits for a camera.
FinalHoldWaitsForCameraReached ==
    /\ gen.done /\ gen.in.kind = "STORM" /\ gen.in.numReps > 1
    /\ gen.cameraReadyTime > gen.returnTime + gen.stabilizationTime
    /\ gen.stabilizationTime > 0
    /\ actions[Len(actions)].time = gen.cameraReadyTime

(***************************************************************************)
(* Specification of compute_z_positions: it is called with some start,     *)
(* stack height and step, and its outcome is recorded.                     *)
(***************************************************************************)
MaxStart == 2       \* largest distance of a start position from the origin
MaxStep == 2        \* largest size of a step

ZPosInit == TableInit

ComputeZPositions ==
    /\ \E start \in -MaxStart..MaxStart,
          stack_height \in -MaxHeight..MaxHeight,
          step \in -MaxStep..MaxStep :
          zcalc' = [done |-> TRUE, start |-> start,
                    stack_height |-> stack_height, step |-> step]
                   @@ zPositions(start, stack_height, step)
    /\ UNCHANGED <<experimentVars, settings, stubTable, guiVars>>

ZPosNext == ComputeZPositions

SpecZPos == ZPosInit /\ [][ZPosNext]_vars

\* The least number of steps of this size that cover the height.
stepsToCover(height, size) ==
    CHOOSE n \in 0..height :
        /\ n * size >= height
        /\ n > 0 => (n - 1) * size < height

\* C14: for a stack height >= 0 and a step other than zero,
\* compute_z_positions returns ceil(stack_height / |step|) + 1 positions, and
\* the position of index i is start + i * step.
ZPositionsByIndex ==
    (zcalc.done /\ zcalc.stack_height >= 0 /\ zcalc.step # 0) =>
        /\ zcalc.error = NoError
        /\ Len(zcalc.positions) =
               stepsToCover(zcalc.stack_height, Abs(zcalc.step)) + 1
        /\ \A i \in 0..(Len(zcalc.positions) - 1) :
               zcalc.positions[i + 1] = zcalc.start + i * zcalc.step

\* A height that the steps overshoot: one step of two units for a height of one.
ZPositionsOvershootReached ==
    /\ zcalc.done
    /\ zcalc.stack_height = 1
    /\ zcalc.step = -2
    /\ zcalc.positions = <<zcalc.start, zcalc.start - 2>>

\* C15: compute_z_positions fails with the invalid-height error whenever the
\* stack height is negative, whatever the start and the step, a step of zero
\* included.
NegativeHeightIsInvalidHeight ==
    (zcalc.done /\ zcalc.stack_height < 0) =>
        /\ zcalc.error = InvalidHeight
        /\ zcalc.positions = <<>>

NegativeHeightZeroStepReached ==
    /\ zcalc.done
    /\ zcalc.stack_height < 0
    /\ zcalc.step = 0
    /\ zcalc.error = InvalidHeight

\* C16 as stated: with a step of zero, compute_z_positions fails with the
\* invalid-step error when the stack height is not zero and returns [start]
\* when it is zero.
ZeroStepInvalidUnlessZeroHeight ==
    (zcalc.done /\ zcalc.step = 0) =>
        IF zcalc.stack_height # 0
        THEN zcalc.error = InvalidStep
        ELSE zcalc.error = NoError /\ zcalc.positions = <<zcalc.start>>

\* C16 amended: with a step of zero, compute_z_positions fails with the
\* invalid-step error when the stack height is positive, returns [start] when
\* it is zero, and fails with the invalid-height error when it is negative.
ZeroStepInvalidForPositiveHeight ==
    (zcalc.done /\ zcalc.step = 0) =>
        /\ zcalc.stack_height > 0 => zcalc.error = InvalidStep
        /\ zcalc.stack_height = 0 =>
               zcalc.error = NoError /\ zcalc.positions = <<zcalc.start>>
        /\ zcalc.stack_height < 0 => zcalc.error = InvalidHeight

ZeroStepPositiveHeightReached ==
    /\ zcalc.done
    /\ zcalc.step = 0
    /\ zcalc.stack_height > 0
    /\ zcalc.error = InvalidStep

\* C17: the positions compute_z_positions returns go the way of the step:
\* strictly increasing for a positive step, strictly decreasing for a negative
\* one, and consecutive positions differ by exactly the step.
ZPositionsFollowStep ==
    (zcalc.done /\ zcalc.error = NoError) =>
        \A i \in 1..(Len(zcalc.positions) - 1) :
            /\ zcalc.positions[i + 1] - zcalc.positions[i] = zcalc.step
            /\ zcalc.step > 0 => zcalc.positions[i] < zcalc.positions[i + 1]
            /\ zcalc.step < 0 => zcalc.positions[i] > zcalc.positions[i + 1]

ZPositionsDescendingReached ==
    /\ zcalc.done
    /\ zcalc.error = NoError
    /\ zcalc.step < 0
    /\ Len(zcalc.positions) = 3
    /\ zcalc.positions[3] < zcalc.positions[1]

(***************************************************************************)
(* ExposureSettings: the cameras of a group and the exposure time of each  *)
(* of its lights.                                                          *)
(***************************************************************************)
MaxLightTime == 2   \* longest exposure time given to a light

Lights == {"light1", "light2"}

DuplicateLight == "already time for light"
EmptyMax == "max() arg is an empty sequence"

\* ExposureSettings.add_camera on the object obj = [cameras, exposures]
add_camera(obj, camera) ==
    [error |-> NoError, obj |-> [obj EXCEPT !.cameras = @ \cup {camera}]]

setItem(dict, key, value) ==
    [k \in DOMAIN dict \cup {key} |-> IF k = key THEN value ELSE dict[k]]

add_lightOverwrites(obj, light, time) ==
    [error |-> NoError,
     obj |-> [obj EXCEPT !.exposures = setItem(@, light, time)]]

\* ExposureSettings.add_light
add_light(obj, light, time) ==
    IF light \in DOMAIN obj.exposures
    THEN [error |-> DuplicateLight, obj |-> obj]
    ELSE [error |-> NoError,
          obj |-> [obj EXCEPT !.exposures = setItem(@, light, time)]]

\* max(self.exposures.values())
maxValue(dict) == MaxOf({dict[k] : k \in DOMAIN dict})

longestWithoutHandler(obj) ==
    IF DOMAIN obj.exposures = {}
    THEN [error |-> EmptyMax, result |-> 0]
    ELSE [error |-> NoError, result |-> maxValue(obj.exposures)]

\* ExposureSettings.longest_exposure
longest_exposure(obj) ==
    IF DOMAIN obj.exposures = {}
    THEN [error |-> NoError, result |-> 0]
    ELSE [error |-> NoError, result |-> maxValue(obj.exposures)]

\* The object held in the variable settings.
exposureSettings == [cameras |-> settings.cameras, exposures |-> settings.exposures]

\* The variable after a call on the object: the object as the call left it,
\* the call with its arguments, its outcome, and the object as it was before.
afterCall(name, args, outcome, obj) ==
    [cameras |-> obj.cameras, exposures |-> obj.exposures,
     call |-> name, args |-> args,
     error |-> outcome.error, result |-> outcome.result,
     before |-> exposureSettings]

ExposureInit == TableInit

AddCamera ==
    /\ \E camera \in Cameras :
          LET r == add_camera(exposureSettings, camera)
          IN  settings' = afterCall("add_camera", <<camera>>,
                                    [error |-> r.error, result |-> 0], r.obj)
    /\ UNCHANGED <<experimentVars, zcalc, stubTable, guiVars>>

AddLight ==
    /\ \E light \in Lights, time \in 0..MaxLightTime :
          LET r == add_light(exposureSettings, light, time)
          IN  settings' = afterCall("add_light", <<light, time>>,
                                    [error |-> r.error, result |-> 0], r.obj)
    /\ UNCHANGED <<experimentVars, zcalc, stubTable, guiVars>>

LongestExposure ==
    /\ settings' = afterCall("longest_exposure", <<>>,
                             longest_exposure(exposureSettings), exposureSettings)
    /\ UNCHANGED <<experimentVars, zcalc, stubTable, guiVars>>

ExposureNext == AddCamera \/ AddLight \/ LongestExposure

SpecExposure == ExposureInit /\ [][ExposureNext]_vars

\* C19: add_light fails with the duplicate-light error if the light already
\* has a duration, and then leaves the durations and the cameras as they were;
\* for a light that has none it succeeds and records exactly that duration,
\* leaving the other lights and the cameras as they were.
AddLightRejectsDuplicate ==
    settings.call = "add_light" =>
        LET light == settings.args[1]
            time == settings.args[2]
            old == settings.before
        IN  IF light \in DOMAIN old.exposures
            THEN /\ settings.error = DuplicateLight
                 /\ settings.exposures = old.exposures
                 /\ settings.cameras = old.cameras
            ELSE /\ settings.error = NoError
                 /\ DOMAIN settings.exposures = DOMAIN old.exposures \cup {light}
                 /\ settings.exposures[light] = time
                 /\ \A k \in DOMAIN old.exposures :
                        settings.exposures[k] = old.exposures[k]
                 /\ settings.cameras = old.cameras

\* A light is given a second, different duration while a camera is recorded.
DuplicateLightRejectedReached ==
    /\ settings.call = "add_light"
    /\ settings.args[1] \in DOMAIN settings.before.exposures
    /\ settings.args[2] # settings.before.exposures[settings.args[1]]
    /\ settings.cameras # {}
    /\ settings.error = DuplicateLight

\* C20: longest_exposure returns the largest of the recorded durations, and
\* zero when no light is recorded, also when cameras have been added.
LongestExposureIsMaximum ==
    settings.call = "longest_exposure" =>
        /\ settings.error = NoError
        /\ IF DOMAIN settings.exposures = {}
           THEN settings.result = 0
           ELSE /\ \E k \in DOMAIN settings.exposures :
                       settings.exposures[k] = settings.result
                /\ \A k \in DOMAIN settings.exposures :
                       settings.exposures[k] <= settings.result

\* Only cameras have been added when the longest exposure is asked for.
LongestOfNoLightReached ==
    /\ settings.call = "longest_exposure"
    /\ settings.cameras # {}
    /\ DOMAIN settings.exposures = {}
    /\ settings.result = 0

(***************************************************************************)
(* cockpit.experiment.ActionTable of __init__.py: a list of actions and    *)
(* interleave.  The class has no method that adds an action, so the lists  *)
(* of the two tables are inputs.                                           *)
(***************************************************************************)
MaxStub == 3        \* most actions held by a table before interleave

\* An element of _actions: an action, or a table that was put in the list.
stubAction(name) == [kind |-> "action", name |-> name, actions |-> <<>>]
stubObject(acts) == [kind |-> "table", name |-> "other", actions |-> acts]

SelfActions == {stubAction("a1"), stubAction("a2")}
OtherActions == {stubAction("b1"), stubAction("b2")}

StubLists(S) == UNION {[1..n -> S] : n \in 0..MaxStub}

Min2(a, b) == IF a <= b THEN a ELSE b

\* list.insert(index, x) for an index >= 0 (indices of the code count from 0)
listInsert(list, index, x) ==
    LET pos == Min2(index, Len(list))
    IN  SubSeq(list, 1, pos) \o <<x>> \o SubSeq(list, pos + 1, Len(list))

\* The loop of interleave from iteration i on; n is len(self._actions) at
\* the time range() was called.
RECURSIVE interleaveFrom(_, _, _, _)
interleaveFrom(acts, other, i, n) ==
    IF i >= n THEN acts
    ELSE interleaveFrom(listInsert(acts, i * 2 + 2, other), other, i + 1, n)

\* ActionTable.interleave: self._actions after the call
interleave(acts, other) == interleaveFrom(acts, other, 0, Len(acts))

InterleaveInit ==
    /\ actions = <<>>
    /\ counter = 0
    /\ dm = idle
    /\ gen = idle
    /\ zcalc = idle
    /\ settings = newSettings
    /\ guiIdle
    /\ \E self \in StubLists(SelfActions), other \in StubLists(OtherActions) :
          stubTable = [done |-> FALSE, actions |-> self, other |-> other,
                       before |-> self]

Interleave ==
    /\ ~stubTable.done
    /\ stubTable' = [stubTable EXCEPT
                        !.done = TRUE,
                        !.actions = interleave(stubTable.actions,
                                               stubObject(stubTable.other))]
    /\ UNCHANGED <<experimentVars, zcalc, settings, guiVars>>

InterleaveNext == Interleave

SpecInterleave == InterleaveInit /\ [][InterleaveNext]_vars

\* C18: after interleave the table's own actions keep their order, every
\* action of the other table appears exactly once, in its order, and the two
\* alternate (own, other, own, other, ...) for as long as both last.
InterleaveAlternates ==
    stubTable.done =>
        LET result == stubTable.actions
            paired == Min2(Len(stubTable.before), Len(stubTable.other))
        IN  /\ SelectSeq(result, LAMBDA e : e \in SelfActions) = stubTable.before
            /\ SelectSeq(result, LAMBDA e : e \notin SelfActions) = stubTable.other
            /\ \A i \in 1..paired :
                   /\ result[2 * i - 1] = stubTable.before[i]
                   /\ result[2 * i] = stubTable.other[i]

(***************************************************************************)
(* Claims about the STORM generator and about experiments of zero height.  *)
(***************************************************************************)
\* The Z slices a generateActions call visited: every move but the last,
\* which goes back to the start.
slicesVisited == Len(gen.moves) - 1

\* The exposures STORM makes at every Z position.
exposuresPerSlice == gen.in.repetitions * Len(gen.in.sequences)

\* Index in the exposure log of exposure j (from 1) at slice k (from 1).
logIndex(k, j) == (k - 1) * exposuresPerSlice + j

\* Index among the Z positioner's actions of the move to slice k.
moveIndex(k) == (k - 1) * (exposuresPerSlice + 1) + 1

\* C12: STORM exposes repetitions x (number of sequences) times at every Z
\* position, in the order of the sequences; every exposure starts strictly
\* after the previous one completed; and every exposure is followed by a hold
\* of the Z positioner at the unchanged altitude of the slice.
StormExposesPerSliceInOrder ==
    (gen.done /\ gen.in.kind = "STORM") =>
        /\ Len(gen.exposeLog) = slicesVisited * exposuresPerSlice
        /\ Len(gen.zLog) = slicesVisited * (exposuresPerSlice + 1) + 2
        /\ \A k \in 1..slicesVisited : \A j \in 1..exposuresPerSlice :
               LET e == gen.exposeLog[logIndex(k, j)]
                   hold == gen.zLog[moveIndex(k) + j]
                   sequence == gen.in.sequences[((j - 1) % Len(gen.in.sequences)) + 1]
               IN  /\ e.slice = k
                   /\ e.exposure = sequence
                   /\ hold.time = e.end + Epsilon
                   /\ hold.position = gen.zLog[moveIndex(k)].position
                   /\ hold.position = gen.in.sliceHeight * (k - 1)
                   /\ \E n \in 1..Len(actions) :
                          /\ actions[n].handler = ZPOS
                          /\ actions[n].time = hold.time
                          /\ actions[n].payload = Float(hold.position)
        /\ \A i \in 1..(Len(gen.exposeLog) - 1) :
               gen.exposeLog[i + 1].start > gen.exposeLog[i].end

\* Two repetitions of two different sequences at more than one Z position.
StormRepeatedSequencesReached ==
    /\ gen.done
    /\ gen.in.kind = "STORM"
    /\ gen.in.repetitions = 2
    /\ Len(gen.in.sequences) = 2
    /\ gen.in.sequences[1] # gen.in.sequences[2]
    /\ slicesVisited >= 2
    /\ Len(gen.exposeLog) = 4 * slicesVisited

RotatorEpsilon == 10000000      \* decimal.Decimal('.001')

POLARIZER == "polarizer"        \* self.lineHandler

\* vTarget = vStart + step * dv, with dv = (vLessThan - vStart) / vSteps
vTarget(in, step) == in.vStart * in.vSteps + step * (in.vLessThan - in.vStart)

lineAction(st, position) ==
    [st EXCEPT !.tbl = addAction(st.tbl, st.curTime, POLARIZER, Float(position))]

settleOnlyAfterExposures(st, dt) ==
    [st EXCEPT !.curTime = IF dt = RotatorEpsilon THEN st.curTime + dt
                           ELSE st.curTime]

\* curTime += dt
settle(st, dt) == [st EXCEPT !.curTime = st.curTime + dt]

\* for exposure in self.exposures: expose, then advance by a millisecond.
RECURSIVE rotatorImage(_, _)
rotatorImage(st, exposures) ==
    IF Len(exposures) = 0 THEN st
    ELSE rotatorImage(settle(expose(st, Head(exposures)), RotatorEpsilon),
                      Tail(exposures))

\* for step in range(vSteps), from this step on.
RECURSIVE rotatorSteps(_, _, _)
rotatorSteps(st, in, step) ==
    IF step >= in.vSteps THEN st
    ELSE LET moved == settle(lineAction(st, vTarget(in, step)), in.settlingTime)
             imaged == rotatorImage(moved, in.exposures)
             held == settle(lineAction(imaged, vTarget(in, step)), in.settlingTime)
         IN  rotatorSteps(held, in, step + 1)

\* RotatorSweepExperiment.generateActions
rotatorGenerateActions(in) ==
    LET st == rotatorSteps(genStart, in, 0)
    IN  [tbl |-> st.tbl,
         info |-> [done |-> TRUE, exposeLog |-> st.exposeLog]]

\* generateActions of the experiment that was set up.
generateActions(in) ==
    CASE in.kind = "zStack" -> zStackGenerateActions(in)
      [] in.kind = "STORM" -> stormGenerateActions(in)
      [] in.kind = "rotatorSweep" -> rotatorGenerateActions(in)

(***************************************************************************)
(* Specification of regeneration: an experiment is set up once and its     *)
(* generateActions is called, and called again.                            *)
(***************************************************************************)
ZStackExperiments ==
    {[kind |-> "zStack", stackHeight |-> height,
      positions |-> compute_z_positions(0, height, 1),
      mover |-> mover, exposures |-> exposures,
      numReps |-> numReps, readout |-> readout] :
        height \in 0..1, mover \in Movers, exposures \in ExposureSettingsLists,
        numReps \in 1..2, readout \in {0, MaxReadout}}

StormExperiments ==
    {[kind |-> "STORM", stackHeight |-> zHeight,
      zHeight |-> runExperimentHeights(zHeight, 1).zHeight,
      sliceHeight |-> runExperimentHeights(zHeight, 1).sliceHeight,
      mover |-> mover, sequences |-> sequences, repetitions |-> repetitions,
      exposureSettings |-> sequences, numReps |-> numReps,
      readout |-> MaxReadout] :
        zHeight \in {0, 2}, mover \in Movers,
        sequences \in UNION {[1..n -> StormSequences] : n \in 0..2},
        repetitions \in 1..2, numReps \in 1..2}

RotatorExperiments ==
    {[kind |-> "rotatorSweep", vStart |-> vStart, vLessThan |-> vLessThan,
      vSteps |-> vSteps, settlingTime |-> settlingTime,
      exposures |-> exposures] :
        vStart \in 0..1, vLessThan \in 1..2, vSteps \in 1..2,
        settlingTime \in 0..1, exposures \in ExposureSettingsLists}

\* (time, handler, payload) of the entries of a table, in table order.
tableContents(acts) ==
    [k \in 1..Len(acts) |->
        <<acts[k].time, acts[k].handler, acts[k].payload>>]

RegenInit ==
    /\ actions = <<>>
    /\ counter = 0
    /\ dm = idle
    /\ zcalc = idle
    /\ settings = newSettings
    /\ guiIdle
    /\ stubTable = idle
    /\ \E in \in ZStackExperiments \cup StormExperiments \cup RotatorExperiments :
          gen = [done |-> FALSE, calls |-> 0, in |-> in]

\* experiment.generateActions(), on the experiment as the last call left it.
GenerateActions ==
    /\ gen.calls < 2
    /\ LET r == generateActions(gen.in)
       IN  /\ actions' = r.tbl.actions
           /\ counter' = r.tbl.counter
           /\ gen' = [in |-> gen.in, calls |-> gen.calls + 1,
                      first |-> IF gen.calls = 0
                                THEN tableContents(r.tbl.actions)
                                ELSE gen.first]
                     @@ r.info
    /\ UNCHANGED <<dm, unitVars, guiVars>>

RegenNext == GenerateActions

SpecRegen == RegenInit /\ [][RegenNext]_vars

MaxSequence == 2    \* most ExposureSettings in a sequence

\* set().union(*sets): the sets are added to a new set one after the other.
RECURSIVE unionOnto(_, _)
unionOnto(acc, sets) ==
    IF Len(sets) = 0 THEN acc
    ELSE unionOnto(acc \cup Head(sets), Tail(sets))

\* ExposureSettings.all_cameras
all_cameras(sequence) ==
    unionOnto({}, [i \in 1..Len(sequence) |-> sequence[i].cameras])

all_lightsLit(sequence) ==
    unionOnto({}, [i \in 1..Len(sequence) |->
                      {light \in DOMAIN sequence[i].exposures :
                          sequence[i].exposures[light] > 0}])

\* ExposureSettings.all_lights
all_lights(sequence) ==
    unionOnto({}, [i \in 1..Len(sequence) |-> DOMAIN sequence[i].exposures])

\* The ExposureSettings a sequence is made of.
SequenceSettings ==
    {[cameras |-> cameras, exposures |-> exposures] :
        cameras \in {{}, {"cam1"}, {"cam1", "cam2"}},
        exposures \in {emptyDict,
                       [light \in {"light1"} |-> 0],
                       [light \in {"light2"} |-> 1],
                       [light \in Lights |-> IF light = "light1" THEN 1 ELSE 0]}}

SequenceInit ==
    /\ IdleOtherThanExposureSeq
    /\ \E sequence \in UNION {[1..n -> SequenceSettings] : n \in 0..MaxSequence} :
          exposureSeq = [done |-> FALSE, sequence |-> sequence,
                         before |-> sequence, call |-> "none", result |-> {}]

AllCameras ==
    /\ exposureSeq' = [exposureSeq EXCEPT
                          !.done = TRUE,
                          !.call = "all_cameras",
                          !.before = exposureSeq.sequence,
                          !.result = all_cameras(exposureSeq.sequence)]
    /\ UNCHANGED otherThanExposureSeq

AllLights ==
    /\ exposureSeq' = [exposureSeq EXCEPT
                          !.done = TRUE,
                          !.call = "all_lights",
                          !.before = exposureSeq.sequence,
                          !.result = all_lights(exposureSeq.sequence)]
    /\ UNCHANGED otherThanExposureSeq

SequenceNext == AllCameras \/ AllLights

SpecSequence == SequenceInit /\ [][SequenceNext]_vars

\* C21: all_cameras and all_lights return exactly the cameras, respectively
\* the lights, that some element of the sequence has (a light with zero
\* exposure time included), the empty set when there is none, and leave the
\* sequence as it was.
AllCamerasAllLightsAreUnions ==
    exposureSeq.done =>
        LET sequence == exposureSeq.sequence
        IN  /\ sequence = exposureSeq.before
            /\ exposureSeq.call = "all_cameras" =>
                   \A c \in Cameras :
                       c \in exposureSeq.result <=>
                           \E i \in 1..Len(sequence) : c \in sequence[i].cameras
            /\ exposureSeq.call = "all_lights" =>
                   \A l \in Lights :
                       l \in exposureSeq.result <=>
                           \E i \in 1..Len(sequence) :
                               l \in DOMAIN sequence[i].exposures
            /\ exposureSeq.result \subseteq Cameras \cup Lights
            /\ (\A i \in 1..Len(sequence) :
                    sequence[i].cameras = {} /\ DOMAIN sequence[i].exposures = {})
                   => exposureSeq.result = {}

\* all_lights of two settings that share no light, one with a time of zero.
AllLightsWithZeroTimeReached ==
    /\ exposureSeq.done
    /\ exposureSeq.call = "all_lights"
    /\ Len(exposureSeq.sequence) = 2
    /\ exposureSeq.sequence[1].exposures = [light \in {"light1"} |-> 0]
    /\ exposureSeq.sequence[2].exposures = [light \in {"light2"} |-> 1]
    /\ exposureSeq.result = Lights

(***************************************************************************)
(* MicroscopeDeformableMirror.executeTable: the entries of the slice       *)
(* table[startIndex:stopIndex] are carried out in order, then the          *)
(* calibration log (remote_focus_LUT) is saved.                            *)
(***************************************************************************)
MaxCalls == 2       \* executeTable calls made on the mirror

\* The tuple (z, kind) of the remote focus calibration experiment.
MarkerAt(z, kind) == [tag |-> "tuple", val |-> kind, z |-> z]
Pattern == [tag |-> "ndarray", val |-> 0]       \* actuator values to send

ArgumentError == "Argument Error: Argument type not understood."
SaveError == "saving remote_focus_LUT failed"

\* The characters of the strings that are indexed.
chars(string) ==
    CASE string = "clean" -> <<"c", "l", "e", "a", "n">>
      [] string = "flatten" -> <<"f", "l", "a", "t", "t", "e", "n">>

\* args[1]: the second item of a tuple, the second character of a string.
secondItem(args) ==
    IF args.tag = "str" THEN chars(args.val)[2] ELSE args.val

\* LUT_values: the position, then what flatten_phase returned.
lutValues(args) == <<args.z, "flat">>

appendAlone(lut, values) == <<values>>

\* self.remote_focus_LUT.append(...)
appendValues(lut, values) == Append(lut, values)

\* The loop of executeTable over the slice: the log it leaves, the number of
\* entries carried out and the exception raised, if any.
RECURSIVE executeEntries(_, _, _)
executeEntries(lut, slice, n) ==
    IF n >= Len(slice) THEN [lut |-> lut, walked |-> n, error |-> NoError]
    ELSE LET h == slice[n + 1].handler
             args == slice[n + 1].payload
             raised == [lut |-> lut, walked |-> n, error |-> ArgumentError]
         IN  IF h # DM THEN executeEntries(lut, slice, n + 1)
             ELSE IF args.tag = "float" THEN executeEntries(lut, slice, n + 1)
             ELSE IF args.tag = "ndarray" THEN executeEntries(lut, slice, n + 1)
             ELSE IF args.tag = "str"
                  THEN IF secondItem(args) = "clean"
                       THEN executeEntries(<<>>, slice, n + 1)
                       ELSE raised
             ELSE IF args.tag = "tuple"
                  THEN IF secondItem(args) = "flatten"
                       THEN executeEntries(appendValues(lut, lutValues(args)),
                                           slice, n + 1)
                       ELSE raised
             ELSE raised

\* The end of executeTable: a log that is not empty is written to
\* remote_focus_LUT.txt and to the user configuration; fails tells whether
\* writing fails.  The file is what it holds afterwards.
saveLog(lut, file, fails) ==
    IF Len(lut) = 0 THEN [file |-> file, error |-> NoError]
    ELSE IF fails THEN [file |-> file, error |-> SaveError]
    ELSE [file |-> lut, error |-> NoError]

\* executeTable on a mirror whose log and file are these.
executeTable(lut, file, slice, fails) ==
    LET run == executeEntries(lut, slice, 0)
        saved == IF run.error = NoError THEN saveLog(run.lut, file, fails)
                 ELSE [file |-> file, error |-> run.error]
    IN  [lut |-> run.lut, walked |-> run.walked, file |-> saved.file,
         error |-> saved.error]

\* What a slice may hold.
SlicePayloads ==
    {Float(10), Pattern, Str("clean"), MarkerAt(1, "flatten"),
     MarkerAt(2, "flatten"), MarkerAt(1, "clean"),
     [tag |-> "bool", val |-> 1]}

SliceEntries ==
    {Entry(0, DM, p, 0) : p \in SlicePayloads} \cup {Entry(0, CAMERA, Float(10), 0)}

\* table[startIndex:stopIndex]: no, one or two entries.
Slices == UNION {[1..n -> SliceEntries] : n \in 0..2}

\* initialize: self.remote_focus_LUT = []
MirrorInit ==
    /\ IdleOtherThanMirror
    /\ mirror = [done |-> FALSE, calls |-> 0, lut |-> <<>>, file |-> <<>>]

ExecuteTable ==
    /\ mirror.calls < MaxCalls
    /\ \E slice \in Slices, fails \in BOOLEAN :
          LET r == executeTable(mirror.lut, mirror.file, slice, fails)
          IN  mirror' = [done |-> TRUE, calls |-> mirror.calls + 1,
                         lut |-> r.lut, file |-> r.file,
                         before |-> mirror.lut, slice |-> slice,
                         fails |-> fails, walked |-> r.walked,
                         error |-> r.error]
    /\ UNCHANGED otherThanMirror

MirrorNext == ExecuteTable

SpecMirror == MirrorInit /\ [][MirrorNext]_vars

\* The entries of the slice that the call carried out.
carriedOut == SubSeq(mirror.slice, 1, mirror.walked)

isFlattenMarker(e) ==
    e.handler = DM /\ e.payload.tag = "tuple" /\ e.payload.val = "flatten"

isCleanMarker(e) ==
    e.handler = DM /\ e.payload.tag \in {"tuple", "str"} /\ e.payload.val = "clean"

\* The positions of the flatten markers of a sequence of entries, in order.
flattenedAt(entries) ==
    LET markers == SelectSeq(entries, isFlattenMarker)
    IN  [i \in 1..Len(markers) |-> markers[i].payload.z]

positionsOf(lut) == [i \in 1..Len(lut) |-> lut[i][1]]

\* C22: an executeTable call that carries out no clean marker leaves the
\* calibration log as it was, followed by one entry for every 'flatten and
\* record' marker it carried out, in their order: entries of earlier calls are
\* neither dropped nor reordered.
CalibrationLogAccumulates ==
    (mirror.done /\ \A i \in 1..Len(carriedOut) : ~isCleanMarker(carriedOut[i])) =>
        /\ Len(mirror.lut) >= Len(mirror.before)
        /\ SubSeq(mirror.lut, 1, Len(mirror.before)) = mirror.before
        /\ positionsOf(SubSeq(mirror.lut, Len(mirror.before) + 1, Len(mirror.lut)))
               = flattenedAt(carriedOut)

\* A second call adds two entries to the one an earlier call recorded.
LogOfTwoCallsReached ==
    /\ mirror.done
    /\ Len(mirror.before) = 1
    /\ Len(mirror.lut) = 3
    /\ positionsOf(mirror.lut) = <<2, 1, 2>>
    /\ mirror.calls = 2

\* C23: when writing the calibration log fails at the end of executeTable,
\* the call still returns normally and the log in memory keeps its entries.
SaveFailureIsCaught ==
    (mirror.done /\ mirror.fails /\ mirror.walked = Len(mirror.slice)
                 /\ Len(mirror.lut) > 0) =>
        /\ mirror.error = NoError
        /\ positionsOf(mirror.lut) =
               positionsOf(mirror.before) \o flattenedAt(mirror.slice)

(***************************************************************************)
(* The experiment windows (cockpit.gui.experiment.ExperimentFrame and its  *)
(* ExperimentPanel).  Each window has its controls, the experiment it      *)
(* prepared last, and the EVT_COCKPIT events its emitter has queued for    *)
(* it.  The experiments themselves (run, is_running, onAbort) and          *)
(* cockpit.events are collaborators: an experiment that was scheduled      *)
(* starts running, runs until it completes, also after onAbort, and then   *)
(* publishes EXPERIMENT_COMPLETE.                                          *)
(***************************************************************************)
MaxPending == 1     \* most EVT_COCKPIT events queued for one window

ID_OK == 5100       \* wx.ID_OK
ID_CANCEL == 5101   \* wx.ID_CANCEL
ID_YES == 5103      \* wx.ID_YES
ID_NO == 5104       \* wx.ID_NO
wxYES == 2          \* wx.YES, a style flag
wxCANCEL == 16      \* wx.CANCEL, a style flag

\* What ShowModal of a message dialog can return.
DialogIds == {ID_OK, ID_CANCEL, ID_YES, ID_NO}

Windows == {1, 2}

noExperiment == [state |-> "none", aborted |-> FALSE]

\* ExperimentPanel.__init__: no experiment, controls enabled for running.
newWindow ==
    [book |-> TRUE, run |-> TRUE, abort |-> FALSE, experiment |-> noExperiment,
     pending |-> 0, destroyed |-> FALSE, statusText |-> ""]

\* ExperimentPanel._EnableExperimentControls
enableExperimentControls(w, enable) ==
    [w EXCEPT !.book = enable, !.run = enable, !.abort = ~enable]

\* experiment.is_running()
is_running(experiment) == experiment.state = "running"

\* ExperimentPanel.IsExperimentRunning
IsExperimentRunning(w) ==
    w.experiment.state # "none" /\ is_running(w.experiment)

\* cockpit.experiment.experiment.isRunning(): some experiment is running.
isRunning(windows) == \E q \in Windows : is_running(windows[q].experiment)

checkFileOverwriteUnlessNo(pathKind, answer) ==
    IF pathKind = "directory"
    THEN [ok |-> FALSE, asked |-> TRUE, text |-> "is a directory"]
    ELSE IF pathKind = "file"
         THEN IF answer = ID_NO
              THEN [ok |-> FALSE, asked |-> TRUE, text |-> "already exists"]
              ELSE [ok |-> TRUE, asked |-> TRUE, text |-> ""]
         ELSE [ok |-> TRUE, asked |-> FALSE, text |-> ""]

\* ExperimentPanel.CheckFileOverwrite for a path that is a directory, some
\* other file, or absent; answer is how the dialog is dismissed.  text is the
\* status text it sets, if any.
CheckFileOverwrite(pathKind, answer) ==
    IF pathKind = "directory"
    THEN [ok |-> FALSE, asked |-> TRUE, text |-> "is a directory"]
    ELSE IF pathKind = "file"
         THEN IF answer # ID_YES
              THEN [ok |-> FALSE, asked |-> TRUE, text |-> "already exists"]
              ELSE [ok |-> TRUE, asked |-> TRUE, text |-> ""]
         ELSE [ok |-> TRUE, asked |-> FALSE, text |-> ""]

\* CheckFileOverwrite was not called.
notCalled == [ok |-> FALSE, asked |-> FALSE, text |-> "not called"]

setStatusText(w, text) == IF text = "" THEN w ELSE [w EXCEPT !.statusText = text]

\* ExperimentPanel.RunExperiment: in.pathOk tells whether GetSavePath returns,
\* in.prepareOk whether _PrepareExperiment does.
RunExperiment(w, in) ==
    LET disabled == enableExperimentControls(w, FALSE)
        check == CheckFileOverwrite(in.pathKind, in.answer)
    IN  IF ~in.pathOk
        THEN [window |-> disabled, outcome |-> "RuntimeError", check |-> notCalled]
        ELSE IF ~check.ok
        THEN [window |-> enableExperimentControls(
                             setStatusText(disabled, check.text), TRUE),
              outcome |-> "refused", check |-> check]
        ELSE IF ~in.prepareOk
        THEN [window |-> enableExperimentControls(disabled, TRUE),
              outcome |-> "not prepared", check |-> check]
        ELSE [window |-> [disabled EXCEPT
                             !.experiment = [state |-> "scheduled",
                                             aborted |-> FALSE]],
              outcome |-> "scheduled", check |-> check]

\* ExperimentPanel._OnRunButton
OnRunButton(windows, p, in) ==
    IF isRunning(windows)
    THEN [window |-> windows[p], outcome |-> "another is running",
          check |-> notCalled]
    ELSE RunExperiment(windows[p], in)

\* experiment.onAbort(): the experiment is told to stop; it keeps running
\* until it has cleaned up.
onAbort(experiment) == [experiment EXCEPT !.aborted = TRUE]

AbortAndEnable(w) ==
    IF IsExperimentRunning(w)
    THEN enableExperimentControls([w EXCEPT !.experiment = onAbort(@)], TRUE)
    ELSE w

\* ExperimentPanel.AbortExperiment
AbortExperiment(w) ==
    IF IsExperimentRunning(w)
    THEN [w EXCEPT !.experiment = onAbort(@)]
    ELSE w

\* ExperimentPanel._OnAbortButton; status is what ShowModal returned.
OnAbortButton(w, status) ==
    IF status # wxCANCEL
    THEN IF status = wxYES
         THEN [window |-> w, outcome |-> "NotImplementedError"]
         ELSE [window |-> AbortExperiment(w),
               outcome |-> IF IsExperimentRunning(w) THEN "onAbort" ELSE "nothing"]
    ELSE [window |-> w, outcome |-> "nothing"]

\* ExperimentPanel._OnExperimentEnd
OnExperimentEnd(w) == enableExperimentControls(w, TRUE)

\* CockpitEvtEmitter._EmitCockpitEvent, for the emitter of a window that was
\* not destroyed (a destroyed window's emitter has unsubscribed).
EmitCockpitEvent(w) ==
    IF w.destroyed THEN w ELSE [w EXCEPT !.pending = @ + 1]

\* self.Destroy(): the window is gone, and with it the events queued for it.
Destroy(w) == [w EXCEPT !.destroyed = TRUE, !.pending = 0]

canIgnoreCloseIfVetoable(isCloseEvent, canVeto) == isCloseEvent /\ canVeto

\* can_ignore_close of ExperimentFrame.OnClose
canIgnoreClose(isCloseEvent, canVeto) == ~isCloseEvent \/ canVeto

\* ExperimentFrame.OnClose for a close event (which may be vetoable) or a
\* menu event.
OnClose(w, isCloseEvent, canVeto) ==
    IF ~IsExperimentRunning(w)
    THEN [window |-> Destroy(w), outcome |-> "destroyed"]
    ELSE IF canIgnoreClose(isCloseEvent, canVeto)
    THEN [window |-> w,
          outcome |-> IF isCloseEvent THEN "message, veto" ELSE "message"]
    ELSE [window |-> Destroy(AbortExperiment(w)), outcome |-> "aborted, destroyed"]

PathKinds == {"absent", "file", "directory"}

\* What one click on Run meets: whether the save path can be built, what is
\* at that path, how the dialog (if one is shown) is dismissed and whether the
\* experiment can be prepared.  Inputs the handler never consults are fixed.
RunInputs ==
    {in \in [pathOk : BOOLEAN, pathKind : PathKinds, answer : DialogIds,
             prepareOk : BOOLEAN] :
        /\ ~in.pathOk => (in.pathKind = "absent" /\ in.prepareOk)
        /\ in.pathKind = "absent" => in.answer = ID_OK
        /\ ~CheckFileOverwrite(in.pathKind, in.answer).ok => in.prepareOk}

\* wx.App with two experiment windows open and nothing done yet.  awaiting
\* holds the open windows whose Abort button told their experiment to abort
\* and that have not handled an EXPERIMENT_COMPLETE event since.
GuiInit ==
    /\ IdleOtherThanGui
    /\ gui = [windows |-> [p \in Windows |-> newWindow], awaiting |-> {},
              last |-> [op |-> "init"]]

\* The user clicks the Run button of window p.
ClickRun(p) ==
    /\ ~gui.windows[p].destroyed
    /\ gui.windows[p].run
    /\ \E in \in RunInputs :
         LET r == OnRunButton(gui.windows, p, in)
         IN  gui' = [gui EXCEPT
                 !.windows[p] = r.window,
                 !.last = [op |-> "run", window |-> p, outcome |-> r.outcome,
                           pathKind |-> in.pathKind, answer |-> in.answer,
                           check |-> r.check]]
    /\ UNCHANGED otherThanGui

\* wx.CallAfter(self._experiment.run) of window p runs.
RunStarts(p) ==
    /\ gui.windows[p].experiment.state = "scheduled"
    /\ gui' = [gui EXCEPT
            !.windows[p].experiment.state = "running",
            !.last = [op |-> "start", window |-> p]]
    /\ UNCHANGED otherThanGui

\* The user clicks the Abort button of window p and dismisses its dialog.
ClickAbort(p) ==
    /\ ~gui.windows[p].destroyed
    /\ gui.windows[p].abort
    /\ \E status \in DialogIds \ {ID_OK} :
         LET r == OnAbortButton(gui.windows[p], status)
         IN  gui' = [gui EXCEPT
                 !.windows[p] = r.window,
                 !.awaiting = IF r.window.experiment.aborted
                                 /\ is_running(r.window.experiment)
                              THEN @ \cup {p} ELSE @,
                 !.last = [op |-> "abort", window |-> p, status |-> status,
                           outcome |-> r.outcome]]
    /\ UNCHANGED otherThanGui

\* The experiment of window p finishes (after its cleanup when it was
\* aborted) and publishes EXPERIMENT_COMPLETE to every subscribed emitter.
ExperimentCompletes(p) ==
    /\ is_running(gui.windows[p].experiment)
    /\ \A q \in Windows : gui.windows[q].pending < MaxPending
    /\ gui' = [gui EXCEPT
            !.windows = [q \in Windows |->
                EmitCockpitEvent(
                    IF q = p THEN [@[q] EXCEPT !.experiment.state = "done"]
                    ELSE @[q])],
            !.last = [op |-> "complete", window |-> p]]
    /\ UNCHANGED otherThanGui

\* Window p handles one EVT_COCKPIT event of its emitter.
HandleExperimentEnd(p) ==
    /\ ~gui.windows[p].destroyed
    /\ gui.windows[p].pending > 0
    /\ gui' = [gui EXCEPT
            !.windows[p] = [OnExperimentEnd(@) EXCEPT !.pending = @ - 1],
            !.awaiting = @ \ {p},
            !.last = [op |-> "end", window |-> p]]
    /\ UNCHANGED otherThanGui

\* Window p gets a close request: a close event or the Close menu item.
Close(p) ==
    /\ ~gui.windows[p].destroyed
    /\ \E isCloseEvent \in BOOLEAN, canVeto \in BOOLEAN :
         /\ ~isCloseEvent => canVeto
         /\ LET r == OnClose(gui.windows[p], isCloseEvent, canVeto)
            IN  gui' = [gui EXCEPT
                    !.windows[p] = r.window,
                    !.awaiting = IF r.window.destroyed THEN @ \ {p} ELSE @,
                    !.last = [op |-> "close", window |-> p,
                              isCloseEvent |-> isCloseEvent,
                              canVeto |-> canVeto,
                              wasRunning |-> IsExperimentRunning(gui.windows[p]),
                              outcome |-> r.outcome]]
    /\ UNCHANGED otherThanGui

GuiNext ==
    \E p \in Windows :
        \/ ClickRun(p)
        \/ RunStarts(p)
        \/ ClickAbort(p)
        \/ ExperimentCompletes(p)
        \/ HandleExperimentEnd(p)
        \/ Close(p)

SpecGui == GuiInit /\ [][GuiNext]_vars

\* C26: CheckFileOverwrite refuses a directory however its dialog is
\* dismissed, allows an existing file only when the user chooses Replace, and
\* allows an absent path without asking.
NeverOverwritesDirectory ==
    (gui.last.op = "run" /\ gui.last.check # notCalled) =>
        /\ gui.last.pathKind = "directory" => ~gui.last.check.ok
        /\ gui.last.pathKind = "file" =>
              (gui.last.check.ok <=> gui.last.answer = ID_YES)
        /\ gui.last.pathKind = "absent" =>
              (gui.last.check.ok /\ ~gui.last.check.asked)
        /\ (gui.last.outcome = "scheduled") => gui.last.check.ok

DirectoryRefusedOnYesReached ==
    /\ gui.last.op = "run"
    /\ gui.last.pathKind = "directory"
    /\ gui.last.answer = ID_YES
    /\ gui.last.outcome = "refused"

\* C25: a close request that can be ignored never destroys the frame of a
\* running experiment (a message is shown instead); with no experiment
\* running the frame is destroyed; a close that cannot be vetoed aborts the
\* experiment and then destroys the frame.
CloseNeverDestroysRunning ==
    gui.last.op = "close" =>
        LET w == gui.windows[gui.last.window]
            ignorable == ~gui.last.isCloseEvent \/ gui.last.canVeto
        IN  /\ (gui.last.wasRunning /\ ignorable) =>
                  /\ ~w.destroyed
                  /\ gui.last.outcome \in {"message", "message, veto"}
            /\ ~gui.last.wasRunning => w.destroyed
            /\ (gui.last.wasRunning /\ ~ignorable) =>
                  (w.destroyed /\ w.experiment.aborted)

MenuCloseWhileRunningReached ==
    /\ gui.last.op = "close"
    /\ gui.last.wasRunning
    /\ ~gui.last.isCloseEvent
    /\ ~gui.windows[gui.last.window].destroyed

MaxPublish == 3     \* most publications

EventTypes == {"test gui", "other"}

Emitters == {1, 2}

\* CockpitEvtEmitter.__init__: subscribed, parent alive, nothing queued.
newEmitter(type) ==
    [type |-> type, subscribed |-> TRUE, alive |-> TRUE, pending |-> 0,
     delivered |-> 0, seen |-> 0, late |-> 0]

\* CockpitEvtEmitter._EmitCockpitEvent
AddPendingEvent(e) == [e EXCEPT !.pending = @ + 1]

\* cockpit.events.publish, as far as emitter e goes.
publish(e, type) ==
    LET counted == IF e.type # type THEN e
                   ELSE IF e.alive THEN [e EXCEPT !.seen = @ + 1]
                   ELSE [e EXCEPT !.late = @ + 1]
    IN  IF e.subscribed /\ e.type = type
        THEN AddPendingEvent(counted) ELSE counted

\* CockpitEvtEmitter._Unsubscribe
Unsubscribe(e) == [e EXCEPT !.subscribed = FALSE]

destroyStillSubscribed(e) == [e EXCEPT !.pending = 0]

\* CockpitEvtEmitter.Destroy: unsubscribes, then wx destroys the handler
\* and the events still queued for it.
emitterDestroy(e) == [Unsubscribe(e) EXCEPT !.pending = 0]

\* EvtEmitter._OnParentDestroy, bound to the parent's EVT_WINDOW_DESTROY.
OnParentDestroy(e) == [emitterDestroy(e) EXCEPT !.alive = FALSE]

\* Two windows with an emitter each, one on each event type or both on
\* the same.
EmittersInit ==
    /\ IdleOtherThanEmitters
    /\ \E type \in EventTypes :
         emitters = [e \in Emitters |->
                        newEmitter(IF e = 1 THEN "test gui" ELSE type)]

publications ==
    LET n(type) == IF \E e \in Emitters : emitters[e].type = type
                   THEN LET e == CHOOSE e \in Emitters : emitters[e].type = type
                        IN  emitters[e].seen + emitters[e].late
                   ELSE 0
    IN  n("test gui") + n("other")

\* cockpit.events.publish(type)
Publish ==
    /\ publications < MaxPublish
    /\ \E type \in EventTypes :
         /\ \E e \in Emitters : emitters[e].type = type
         /\ emitters' = [e \in Emitters |-> publish(emitters[e], type)]
    /\ UNCHANGED otherThanEmitters

\* wx processes one pending event of emitter e: its bound handler is called.
ProcessPendingEvent(e) ==
    /\ emitters[e].pending > 0
    /\ emitters' = [emitters EXCEPT ![e].pending = @ - 1,
                                     ![e].delivered = @ + 1]
    /\ UNCHANGED otherThanEmitters

\* The parent window of emitter e is destroyed.
DestroyParent(e) ==
    /\ emitters[e].alive
    /\ emitters' = [emitters EXCEPT ![e] = OnParentDestroy(@)]
    /\ UNCHANGED otherThanEmitters

EmittersNext ==
    \/ Publish
    \/ \E e \in Emitters : ProcessPendingEvent(e)
    \/ \E e \in Emitters : DestroyParent(e)

SpecEmitters == EmittersInit /\ [][EmittersNext]_vars

\* C27: while its parent is alive an emitter has queued or delivered exactly
\* one EVT_COCKPIT per publication of its event type; once the parent is
\* destroyed it is unsubscribed, so later publications queue and deliver
\* nothing.
EmitterDeliversWhileParentAlive ==
    \A e \in Emitters :
        /\ emitters[e].alive =>
              emitters[e].delivered + emitters[e].pending = emitters[e].seen
        /\ ~emitters[e].alive =>
              /\ emitters[e].pending = 0
              /\ emitters[e].delivered <= emitters[e].seen

PublishedAfterDestroyReached ==
    \E e \in Emitters :
        /\ ~emitters[e].alive
        /\ emitters[e].delivered > 0
        /\ emitters[e].late > 0
        /\ emitters[3 - e].alive
        /\ emitters[3 - e].delivered = emitters[3 - e].seen
        /\ emitters[3 - e].delivered > emitters[e].delivered

(***************************************************************************)
(* The multi-site settings panel (MultiSiteSettingsPanel).  Sites are      *)
(* numbered by their uniqueID; the stage mover (a collaborator) keeps the  *)
(* existing sites and lists them in the order of their creation.           *)
(***************************************************************************)
MaxSites == 3       \* sites saved in the stage mover

AllSiteIds == 1 .. MaxSites

\* The sequences of distinct sites among those of a set.
RECURSIVE arrangements(_)
arrangements(sites) ==
    {<<>>} \cup UNION {{<<s>> \o rest : rest \in arrangements(sites \ {s})} :
                       s \in sites}

RECURSIVE ascending(_)
ascending(sites) ==
    IF sites = {} THEN <<>>
    ELSE LET least == CHOOSE s \in sites : \A o \in sites : s <= o
         IN  <<least>> \o ascending(sites \ {least})

contains(seq, x) == \E i \in 1 .. Len(seq) : seq[i] = x

\* [site for site in a if site in b]
keepThoseIn(a, b) == SelectSeq(a, LAMBDA site : contains(b, site))

\* ', '.join([str(x) for x in sites])
RECURSIVE joinSites(_)
joinSites(sites) ==
    IF sites = <<>> THEN ""
    ELSE IF Len(sites) = 1 THEN ToString(sites[1])
    ELSE ToString(sites[1]) \o ", " \o joinSites(Tail(sites))

\* The Sites setter of the panel.
setSites(panel, sites) ==
    [panel EXCEPT !.sites = sites, !.text = joinSites(sites)]

\* MultiSiteSettingsPanel.OnSelectSites: the sites the dialog lists, the
\* selected ones first.
dialogSites(panel) ==
    keepThoseIn(panel.all, panel.sites)
        \o SelectSeq(panel.all, LAMBDA site : ~contains(panel.sites, site))

\* MultiSiteSettingsPanel.OnSiteDeleted
OnSiteDeleted(panel) ==
    IF Len(panel.sites) > 0
    THEN setSites(panel, keepThoseIn(panel.all, panel.sites))
    ELSE panel

\* Sites saved in the stage mover, the panel created with no selection.
SitesPanelInit ==
    /\ IdleOtherThanSitesPanel
    /\ sitesPanel = [all |-> ascending(AllSiteIds), sites |-> <<>>, text |-> "",
                     last |-> [op |-> "init", site |-> 0, before |-> <<>>]]

\* The user changes the selection: the dialog is closed with OK and some of
\* the listed sites checked, in the order the user gave them, or cancelled.
SelectSites ==
    /\ \E ok \in BOOLEAN :
         \E checked \in arrangements({dialogSites(sitesPanel)[i] :
                                      i \in 1 .. Len(dialogSites(sitesPanel))}) :
            /\ ~ok => checked = <<>>
            /\ sitesPanel' =
                  [(IF ok THEN setSites(sitesPanel, checked) ELSE sitesPanel)
                   EXCEPT !.last = [op |-> "select", site |-> 0,
                                    before |-> sitesPanel.sites]]
    /\ UNCHANGED otherThanSitesPanel

\* stageMover.deleteSite(site): the site is gone and SITE_DELETED is
\* published, which the panel handles.
DeleteSite ==
    /\ \E i \in 1 .. Len(sitesPanel.all) :
         LET site == sitesPanel.all[i]
             left == SelectSeq(sitesPanel.all, LAMBDA s : s # site)
         IN  sitesPanel' =
                [OnSiteDeleted([sitesPanel EXCEPT !.all = left])
                 EXCEPT !.last = [op |-> "delete", site |-> site,
                                  before |-> sitesPanel.sites]]
    /\ UNCHANGED otherThanSitesPanel

SitesPanelNext == SelectSites \/ DeleteSite

SpecSitesPanel == SitesPanelInit /\ [][SitesPanelNext]_vars

\* C28: after a site is deleted the selection is the previous selection
\* without the sites that no longer exist, in the order the user had chosen
\* (so it is unchanged when the deleted site was not selected), and the text
\* lists the selection.
SelectionSurvivesDeletion ==
    /\ sitesPanel.text = joinSites(sitesPanel.sites)
    /\ sitesPanel.last.op = "delete" =>
          /\ sitesPanel.sites =
                keepThoseIn(sitesPanel.last.before, sitesPanel.all)
          /\ ~contains(sitesPanel.last.before, sitesPanel.last.site) =>
                sitesPanel.sites = sitesPanel.last.before

(***************************************************************************)
(* The sites rearrange control (SitesRearrangeCtrl and its                 *)
(* SitesRearrangeList).  The list keeps the sites it was built with and,   *)
(* as wx.RearrangeList does, its current order: the indices (from zero) of *)
(* the items in the order shown, an unchecked item standing as the bit     *)
(* complement of its index.                                                *)
(***************************************************************************)
MaxListed == 3      \* sites listed in the control

\* ~x of Python
bitComplement(x) == 0 - x - 1

\* i if i >= 0 else ~i
indexOf(i) == IF i >= 0 THEN i ELSE bitComplement(i)

\* SitesRearrangeList.Sites
listSites(list) ==
    [k \in 1 .. Len(list.order) |-> list.sites[indexOf(list.order[k]) + 1]]

\* wx.RearrangeList.IsChecked(i), i counted from zero
IsChecked(list, i) == list.order[i + 1] >= 0

\* SitesRearrangeList.CheckedSites
CheckedSites(list) ==
    LET shown == listSites(list)
        positions == SelectSeq([k \in 1 .. Len(shown) |-> k - 1],
                               LAMBDA i : IsChecked(list, i))
    IN  [k \in 1 .. Len(positions) |-> shown[positions[k] + 1]]

\* wx.RearrangeList.Check(i, check)
Check(list, i, check) ==
    [list EXCEPT !.order[i + 1] =
        IF check THEN indexOf(@) ELSE bitComplement(indexOf(@))]

\* wx.RearrangeList.MoveCurrentUp / MoveCurrentDown with item i current:
\* the item changes places with its neighbour, if it has one.
MoveCurrent(list, i, up) ==
    LET j == IF up THEN i - 1 ELSE i + 1
    IN  IF j < 0 \/ j >= Len(list.order) THEN list
        ELSE [list EXCEPT !.order[i + 1] = list.order[j + 1],
                          !.order[j + 1] = list.order[i + 1]]

\* SitesRearrangeList.__init__
newList(order, sites) == [order |-> order, sites |-> sites]

onOptimiseAllChecked(list, optimised) ==
    LET shown == listSites(list)
        unchecked == SelectSeq(shown,
                               LAMBDA site : \A k \in 1 .. Len(optimised) :
                                                optimised[k] # site)
        sites == optimised \o unchecked
    IN  newList([k \in 1 .. Len(sites) |-> k - 1], sites)

\* SitesRearrangeCtrl.OnOptimise; optimised is what
\* stageMover.optimisedSiteOrder returns for the checked sites.
OnOptimise(list, optimised) ==
    LET shown == listSites(list)
        positions == [k \in 1 .. Len(shown) |-> k - 1]
        unselected == SelectSeq(positions, LAMBDA i : ~IsChecked(list, i))
        selected == Len(shown) - Len(unselected)
        sites == optimised
                 \o [k \in 1 .. Len(unselected) |-> shown[unselected[k] + 1]]
        order == [k \in 1 .. Len(sites) |->
                    IF k - 1 < selected THEN k - 1 ELSE bitComplement(k - 1)]
    IN  newList(order, sites)

ListedSites == 1 .. MaxListed

noEvent == [op |-> "init", shown |-> <<>>, checked |-> <<>>, optimised |-> <<>>]

\* The control as OnSelectSites builds it: the selected sites first and
\* checked, the others after them and unchecked.
RearrangeInit ==
    /\ IdleOtherThanRearrange
    /\ \E selected \in 0 .. MaxListed :
         rearrange =
            [list |-> newList([k \in 1 .. MaxListed |->
                                  IF k - 1 < selected THEN k - 1
                                  ELSE bitComplement(k - 1)],
                              ascending(ListedSites)),
             last |-> noEvent]

\* The user checks or unchecks an item.
CheckItem ==
    /\ \E i \in 0 .. MaxListed - 1, check \in BOOLEAN :
         rearrange' = [list |-> Check(rearrange.list, i, check),
                       last |-> [noEvent EXCEPT !.op = "check"]]
    /\ UNCHANGED otherThanRearrange

\* SitesRearrangeCtrl.OnMove with some item current.
OnMove ==
    /\ \E i \in 0 .. MaxListed - 1, up \in BOOLEAN :
         rearrange' = [list |-> MoveCurrent(rearrange.list, i, up),
                       last |-> [noEvent EXCEPT !.op = "move"]]
    /\ UNCHANGED otherThanRearrange

\* The user clicks Optimise; the optimiser returns the checked sites in some
\* order.
ClickOptimise ==
    /\ \E optimised \in arrangements({CheckedSites(rearrange.list)[k] :
                            k \in 1 .. Len(CheckedSites(rearrange.list))}) :
         /\ Len(optimised) = Len(CheckedSites(rearrange.list))
         /\ rearrange' =
               [list |-> OnOptimise(rearrange.list, optimised),
                last |-> [op |-> "optimise",
                          shown |-> listSites(rearrange.list),
                          checked |-> CheckedSites(rearrange.list),
                          optimised |-> optimised]]
    /\ UNCHANGED otherThanRearrange

RearrangeNext == CheckItem \/ OnMove \/ ClickOptimise

SpecRearrange == RearrangeInit /\ [][RearrangeNext]_vars

itemsOf(seq) == {seq[k] : k \in 1 .. Len(seq)}

\* C29: Optimise keeps the listed sites and the checked sites; afterwards the
\* checked sites come first, in the optimiser's order, the unchecked ones
\* follow in the order they had, and with nothing checked the order is
\* unchanged.
OptimiseKeepsSitesAndChecks ==
    rearrange.last.op = "optimise" =>
        LET before == rearrange.last
            unchecked == SelectSeq(before.shown,
                                   LAMBDA site : ~contains(before.checked, site))
        IN  /\ itemsOf(listSites(rearrange.list)) = itemsOf(before.shown)
            /\ itemsOf(CheckedSites(rearrange.list)) = itemsOf(before.checked)
            /\ listSites(rearrange.list) = before.optimised \o unchecked
            /\ CheckedSites(rearrange.list) = before.optimised
            /\ \A i \in 0 .. Len(before.shown) - 1 :
                  IsChecked(rearrange.list, i) <=> i < Len(before.checked)
            /\ before.checked = <<>> =>
                  listSites(rearrange.list) = before.shown

OptimisedSomeCheckedReached ==
    /\ rearrange.last.op = "optimise"
    /\ rearrange.last.shown = <<3, 1, 2>>
    /\ rearrange.last.checked = <<3, 2>>
    /\ listSites(rearrange.list) = <<2, 3, 1>>

(***************************************************************************)
(* The Z settings panel (ZSettingsPanel).  Its text controls hold text;    *)
(* the numbers typed are whole multiples of the default step size, and     *)
(* positions are counted in halves of it, so that the half of a stack      *)
(* height is a whole number.                                               *)
(***************************************************************************)
MaxTyped == 2       \* largest number typed into a control

TypedNumbers == (0 - 1) .. MaxTyped + 1

\* What the user can type: a number, nothing, or something else.
TypedTexts == {ToString(n) : n \in (0 - 1) .. MaxTyped} \cup {"", "um"}

\* float(text): the number, or a ValueError.
float(text) ==
    IF \E n \in TypedNumbers : ToString(n) = text
    THEN [error |-> NoError,
          value |-> CHOOSE n \in TypedNumbers : ToString(n) = text]
    ELSE [error |-> "ValueError", value |-> 0]

Positions == {"CENTER", "BOTTOM", "SAVED"}

\* ZSettingsPanel.GetPositions: the exception it raises, if any, and the
\* positions it returns.
GetPositions(panel) ==
    LET step == float(panel.step_size)
        height == float(panel.stack_height)
        failed(error) == [error |-> error, positions |-> <<>>]
    IN  IF step.error # NoError THEN failed(step.error)
        ELSE IF height.error # NoError THEN failed(height.error)
        ELSE IF step.value = 0 THEN failed("RuntimeError")
        ELSE IF height.value < 0 THEN failed("RuntimeError")
        ELSE IF panel.position = "SAVED"
        THEN zPositions(2 * panel.savedBottom, 2 * height.value,
                        IF panel.savedBottom > panel.savedTop
                        THEN 0 - 2 * Abs(step.value) ELSE 2 * step.value)
        ELSE IF panel.position = "BOTTOM"
        THEN zPositions(2 * panel.current_z, 2 * height.value, 2 * step.value)
        ELSE zPositions(2 * panel.current_z - height.value, 2 * height.value,
                        2 * step.value)

\* What _UpdateNumberOfSlicesDisplay shows for the values of the controls.
numberOfSlices(panel) ==
    IF GetPositions(panel).error # NoError THEN "ERR"
    ELSE ToString(Len(GetPositions(panel).positions))

\* ZSettingsPanel._UpdateNumberOfSlicesDisplay
UpdateNumberOfSlicesDisplay(panel) ==
    [panel EXCEPT !.number_slices = numberOfSlices(panel)]

\* ZSettingsPanel.OnStackChange
OnStackChange(panel) == UpdateNumberOfSlicesDisplay(panel)

\* ZSettingsPanel.OnPositionChoice
OnPositionChoice(panel) ==
    IF panel.position = "SAVED"
    THEN [panel EXCEPT
            !.stack_height = ToString(Abs(panel.savedTop - panel.savedBottom)),
            !.heightEnabled = FALSE]
    ELSE [panel EXCEPT !.heightEnabled = TRUE]

SavedPositions == {0, 2}

\* ZSettingsPanel.__init__, with some top and bottom saved and the stage
\* somewhere.
ZPanelInit ==
    /\ IdleOtherThanZPanel
    /\ \E top \in SavedPositions, bottom \in SavedPositions, z \in {0, 1} :
         zPanel = UpdateNumberOfSlicesDisplay(
                     [step_size |-> "1", stack_height |-> "0",
                      position |-> "CENTER", heightEnabled |-> TRUE,
                      number_slices |-> "", savedTop |-> top,
                      savedBottom |-> bottom, current_z |-> z,
                      last |-> "init"])

\* The user edits the stack height and leaves the control.
EditStackHeight ==
    /\ zPanel.heightEnabled
    /\ \E text \in TypedTexts :
         zPanel' = [OnStackChange([zPanel EXCEPT !.stack_height = text])
                    EXCEPT !.last = "height"]
    /\ UNCHANGED otherThanZPanel

\* The user edits the step size and leaves the control.
EditStepSize ==
    /\ \E text \in TypedTexts :
         zPanel' = [OnStackChange([zPanel EXCEPT !.step_size = text])
                    EXCEPT !.last = "step"]
    /\ UNCHANGED otherThanZPanel

\* The user chooses a position mode.
ChoosePosition ==
    /\ \E choice \in Positions :
         zPanel' = [OnPositionChoice([zPanel EXCEPT !.position = choice])
                    EXCEPT !.last = "position"]
    /\ UNCHANGED otherThanZPanel

ZPanelNext == EditStackHeight \/ EditStepSize \/ ChoosePosition

SpecZPanel == ZPanelInit /\ [][ZPanelNext]_vars

\* C30: the 'Number Z slices' display is the number of positions
\* GetPositions returns for the values the controls hold, or 'ERR' when
\* GetPositions fails.
DisplayShowsNumberOfSlices ==
    zPanel.number_slices = numberOfSlices(zPanel)

\* The windows whose experiment was scheduled to run or is running.
startedExperiments ==
    {p \in Windows :
        gui.windows[p].experiment.state \in {"scheduled", "running"}}

\* C31: at most one experiment is started at any time across the windows:
\* after a Run click scheduled an experiment, no Run click starts a second one
\* until the first has completed.
AtMostOneExperimentStarted == Cardinality(startedExperiments) <= 1

\* C32: when RunExperiment ends without an experiment scheduled (no save
\* path, overwrite refused, or the experiment could not be prepared) the Run
\* button and the chooser are enabled and the Abort button is disabled.
RunWithoutScheduleLeavesIdle ==
    (gui.last.op = "run"
        /\ gui.last.outcome \in {"RuntimeError", "refused", "not prepared"}) =>
        LET w == gui.windows[gui.last.window]
        IN  w.run /\ w.book /\ ~w.abort

\* C39: an Abort click whose dialog is dismissed with Cancel does not abort
\* the running experiment and leaves the controls in the running state; with
\* Keep chosen, onAbort of the running experiment is called.
CancelledAbortDoesNotAbort ==
    gui.last.op = "abort" =>
        LET w == gui.windows[gui.last.window]
        IN  /\ gui.last.status = ID_CANCEL =>
                  /\ gui.last.outcome = "nothing"
                  /\ ~w.run /\ ~w.book /\ w.abort
            /\ (gui.last.status = ID_NO /\ is_running(w.experiment)) =>
                  (gui.last.outcome = "onAbort" /\ w.experiment.aborted)

\* The triggers emitted in the main pass up to and including its k-th entry.
RECURSIVE triggersEmitted(_)
triggersEmitted(k) ==
    IF k = 0 THEN 0
    ELSE triggersEmitted(k - 1) + (IF dm.log[k].n > 0 THEN dm.log[k].n ELSE 0)

\* C33: in the main pass of examineActions with a non-empty cycle, after
\* each entry lastIndex is at least 0 and less than the cycle length and is
\* the number of triggers emitted so far modulo the cycle length, and the
\* number of triggers computed for an entry is never negative.
LastIndexTracksTriggers ==
    (dm.done /\ dm.used /\ dm.sequenceLength > 0) =>
        \A k \in 1 .. Len(dm.log) :
            /\ dm.log[k].n >= 0
            /\ 0 <= dm.log[k].after /\ dm.log[k].after < dm.sequenceLength
            /\ dm.log[k].after = triggersEmitted(k) % dm.sequenceLength

notOfMirror(e) == e.handler # DM

\* C34: examineActions leaves every entry of another handler in the table,
\* with its time, handler and payload and in the same relative order; with
\* no entry of the mirror the table is unchanged and nothing is queued.
OnlyOwnEntriesRewritten ==
    dm.done =>
        /\ SelectSeq(actions, notOfMirror) = SelectSeq(dm.before, notOfMirror)
        /\ ~dm.used => (actions = dm.before /\ dm.queued = <<>>)

\* A rewritten table in which an entry of a camera sits at the time of a
\* target of the mirror for which triggers were emitted.
CameraAmongTriggersReached ==
    /\ dm.done /\ dm.used
    /\ \E k \in 1 .. Len(dm.log), j \in 1 .. Len(dm.before) :
          /\ dm.log[k].n > 0
          /\ dm.before[j].handler = CAMERA
          /\ dm.before[j].time = dm.log[k].entry.time
          /\ dm.before[j].seq > dm.log[k].entry.seq
    /\ Len(actions) > Len(dm.before)

\* C35: examineActions sends one pattern-queue command, and the patterns it
\* queues are those of the detected periodic unit, one per element of the
\* cycle, so that their number is the cycle length of the modulo wrap.
QueuedPatternsAreTheCycle ==
    (dm.done /\ dm.used /\ dm.reducedParams # <<>>) =>
        /\ Len(dm.queued) = 1
        /\ dm.queued[1] = dm.sequence
        /\ Len(dm.queued[1]) = dm.sequenceLength

ofPolarizer(e) == e.handler = POLARIZER

polarizerActions == SelectSeq(actions, ofPolarizer)

\* C36: in the rotator sweep table the polarizer gets two actions per
\* voltage step, a move to the step's voltage and, after the exposures of the
\* step, a hold at the same voltage; with a positive settling time the times
\* of the polarizer's actions are strictly increasing.
PolarizerMovesThenHolds ==
    (gen.done /\ gen.in.kind = "rotatorSweep") =>
        /\ Len(polarizerActions) = 2 * gen.in.vSteps
        /\ \A k \in 1 .. gen.in.vSteps :
              /\ polarizerActions[2 * k - 1].payload
                    = polarizerActions[2 * k].payload
              /\ polarizerActions[2 * k - 1].time <= polarizerActions[2 * k].time
        /\ Len(gen.exposeLog) = gen.in.vSteps * Len(gen.in.exposures)
        /\ \A j \in 1 .. Len(gen.exposeLog) :
              LET k == (j - 1) \div Len(gen.in.exposures) + 1
              IN  /\ polarizerActions[2 * k - 1].time <= gen.exposeLog[j].start
                  /\ gen.exposeLog[j].end <= polarizerActions[2 * k].time
        /\ gen.in.settlingTime > 0 =>
              \A i \in 1 .. Len(polarizerActions) - 1 :
                  polarizerActions[i].time < polarizerActions[i + 1].time

\* A sweep of two voltage steps with a settling time and two exposures at
\* each step.
SweepOfTwoStepsReached ==
    /\ gen.done
    /\ gen.in.kind = "rotatorSweep"
    /\ gen.in.vSteps = 2
    /\ gen.in.settlingTime > 0
    /\ Len(gen.in.exposures) = 2
    /\ Len(gen.exposeLog) = 4
    /\ Len(polarizerActions) = 4
    /\ polarizerActions[2].payload # polarizerActions[3].payload

\* The places of the slice that hold a clean message which the loop of
\* executeTable got to.
cleanReached ==
    {k \in 1 .. Len(mirror.slice) :
        isCleanMarker(mirror.slice[k]) /\ k <= mirror.walked + 1}

\* C37: when executeTable gets to a 'clean' message of the mirror it empties
\* the calibration log, so that the log afterwards holds the entries of the
\* flatten markers carried out after the clean message and no other.
CleanEmptiesCalibrationLog ==
    (mirror.done /\ cleanReached # {}) =>
        LET last == CHOOSE k \in cleanReached : \A j \in cleanReached : j <= k
        IN  /\ last <= mirror.walked
            /\ positionsOf(mirror.lut) =
                   flattenedAt(SubSeq(mirror.slice, last + 1, mirror.walked))

(***************************************************************************)
(* The experiment event emitter (ExperimentEvtEmitter) of one experiment,  *)
(* "own".  cockpit.events and the experiments that publish on it are       *)
(* collaborators: an experiment publishes PREPARE_FOR_EXPERIMENT with      *)
(* itself when it starts, then status updates, then                        *)
(* CLEANUP_AFTER_EXPERIMENT and EXPERIMENT_COMPLETE, none of which names   *)
(* the experiment; subscribe adds a function to the list of an event type, *)
(* unsubscribe removes it once, publish calls every function of the list.  *)
(***************************************************************************)
MaxRuns == 4        \* most experiment runs

Experiments == {"own", "other"}

\* The three subscriptions of _cockpit_events_to_subscription_functions.
ForwardedTypes ==
    {"UPDATE_STATUS_LIGHT", "CLEANUP_AFTER_EXPERIMENT", "EXPERIMENT_COMPLETE"}

\* ExperimentEvtEmitter.__init__: only _OnExperimentPreparation subscribed.
newExperimentEmitter ==
    [subscriptions |-> [type \in ForwardedTypes |-> 0], emitted |-> 0]

\* ExperimentEvtEmitter._EmitExperimentEvent
EmitExperimentEvent(e) == [e EXCEPT !.emitted = @ + 1]

\* ExperimentEvtEmitter._OnExperimentPreparation
OnExperimentPreparation(e, experiment) ==
    IF experiment = "own"
    THEN [e EXCEPT !.subscriptions = [type \in ForwardedTypes |-> @[type] + 1]]
    ELSE e

\* ExperimentEvtEmitter._OnUpdateStatusLight; clears tells whether it is the
\* data saver clearing the image count.
OnUpdateStatusLight(e, clears) == IF clears THEN e ELSE EmitExperimentEvent(e)

\* ExperimentEvtEmitter._OnCleanupAfterExperiment
OnCleanupAfterExperiment(e) == EmitExperimentEvent(e)

\* ExperimentEvtEmitter._OnExperimentCompletion
OnExperimentCompletion(e) ==
    [EmitExperimentEvent(e) EXCEPT
        !.subscriptions = [type \in ForwardedTypes |->
                              IF @[type] > 0 THEN @[type] - 1 ELSE 0]]

\* cockpit.events.publish: the function is called once for every time it is
\* in the list of the event type.
RECURSIVE callSubscribers(_, _, _)
callSubscribers(e, times, type) ==
    IF times = 0 THEN e
    ELSE callSubscribers(
            CASE type = "UPDATE_STATUS_LIGHT" -> OnUpdateStatusLight(e, FALSE)
              [] type = "image count cleared" -> OnUpdateStatusLight(e, TRUE)
              [] type = "CLEANUP_AFTER_EXPERIMENT" -> OnCleanupAfterExperiment(e)
              [] type = "EXPERIMENT_COMPLETE" -> OnExperimentCompletion(e),
            times - 1, type)

subscribedTo(e, type) ==
    IF type = "image count cleared" THEN e.subscriptions["UPDATE_STATUS_LIGHT"]
    ELSE e.subscriptions[type]

\* The emitter after a publication by an experiment, and what was published;
\* the events emitted are handled before the next publication.
published(type, experiment) ==
    LET after == callSubscribers(expEmitter.emitter,
                                 subscribedTo(expEmitter.emitter, type), type)
    IN  [expEmitter EXCEPT
            !.emitter = [after EXCEPT !.emitted = 0],
            !.last = [type |-> type, experiment |-> experiment,
                      emitted |-> after.emitted - expEmitter.emitter.emitted]]

\* An emitter was created for the experiment "own"; nothing runs.
ExpEmitterInit ==
    /\ IdleOtherThanExpEmitter
    /\ expEmitter = [emitter |-> newExperimentEmitter,
                     running |-> {}, cleaned |-> {}, runs |-> 0,
                     last |-> [type |-> "none", experiment |-> "none",
                               emitted |-> 0]]

\* An experiment starts to run and publishes PREPARE_FOR_EXPERIMENT.
PrepareForExperiment(x) ==
    /\ x \notin expEmitter.running
    /\ expEmitter.runs < MaxRuns
    /\ expEmitter' =
          [expEmitter EXCEPT
              !.emitter = OnExperimentPreparation(@, x),
              !.running = @ \cup {x},
              !.runs = @ + 1,
              !.last = [type |-> "PREPARE_FOR_EXPERIMENT", experiment |-> x,
                        emitted |-> 0]]
    /\ UNCHANGED otherThanExpEmitter

\* A running experiment publishes UPDATE_STATUS_LIGHT.
UpdateStatusLight(x) ==
    /\ x \in expEmitter.running \ expEmitter.cleaned
    /\ \E type \in {"UPDATE_STATUS_LIGHT", "image count cleared"} :
          expEmitter' = published(type, x)
    /\ UNCHANGED otherThanExpEmitter

\* A running experiment publishes CLEANUP_AFTER_EXPERIMENT.
CleanupAfterExperiment(x) ==
    /\ x \in expEmitter.running \ expEmitter.cleaned
    /\ expEmitter' = [published("CLEANUP_AFTER_EXPERIMENT", x)
                      EXCEPT !.cleaned = @ \cup {x}]
    /\ UNCHANGED otherThanExpEmitter

\* An experiment that has cleaned up publishes EXPERIMENT_COMPLETE.
ExperimentComplete(x) ==
    /\ x \in expEmitter.cleaned
    /\ expEmitter' = [published("EXPERIMENT_COMPLETE", x)
                      EXCEPT !.cleaned = @ \ {x}, !.running = @ \ {x}]
    /\ UNCHANGED otherThanExpEmitter

ExpEmitterNext ==
    \E x \in Experiments :
        \/ PrepareForExperiment(x)
        \/ UpdateStatusLight(x)
        \/ CleanupAfterExperiment(x)
        \/ ExperimentComplete(x)

SpecExpEmitter == ExpEmitterInit /\ [][ExpEmitterNext]_vars

\* C38: the emitter forwards the step, cleanup and end events of its own
\* experiment, one event for each, also when the experiment runs again, and
\* emits nothing for the events of another experiment.
EmitsOnlyForOwnExperiment ==
    /\ expEmitter.last.experiment = "other" => expEmitter.last.emitted = 0
    /\ (expEmitter.last.experiment = "own"
            /\ expEmitter.last.type \in ForwardedTypes) =>
          expEmitter.last.emitted = 1

====
